---- MODULE Spec2Model ----
(***************************************************************************)
(* The task service of the task manager (app/services/task_service.py),    *)
(* as the route handlers of app/routes/tasks.py call it: the MongoDB       *)
(* collection `tasks`, the Redis cache of task snapshots, and the five     *)
(* operations create_task, get_user_tasks, get_task_by_id, update_task     *)
(* and delete_task.  One action is one call of a service method, run to    *)
(* completion; `last` records the call and what it returned or raised.     *)
(***************************************************************************)
EXTENDS Integers, Sequences, FiniteSets, TLC

VARIABLES
    tasks,    \* mongo.db.tasks: ObjectId -> document, for the rows that exist
    cache,    \* Redis: key -> JSON text, for the keys that are set
    nextId,   \* the next ObjectId insert_one will assign
    calls,    \* number of service calls made so far
    last,     \* the last service call: caller, task id, outcome, returned value
    users,    \* mongo.db.users: the user documents, in the order inserted
    reqs,     \* the requests being served concurrently: worker -> its position
    ttl,      \* Redis: key -> seconds the key has left, where time is kept
    now       \* datetime.now(pytz.utc), in seconds, where reset tokens are kept

vars == <<tasks, cache, nextId, calls, last, users, reqs, ttl, now>>

----------------------------------------------------------------------------
(* Bounds and input domains *)

MaxTasks == 2
MaxCalls == 3

\* Python None / JSON null: a value that is no text the model supplies.
None == "<None>"

\* Identities carried by a verified JWT (get_jwt_identity()).
Users == {"alice", "bob"}

\* Text supplied as a title; only the blank counts as whitespace here.
Titles == {None, "", " ab ", "abc"}
Descriptions == {None, "d"}
Statuses == {None, "", "pending", "in-progress", "completed", "archived"}

\* A task id as the URL carries it: the string form of an ObjectId, written
\* as the ObjectId's number, or text bson.ObjectId rejects (MalformedId).
MalformedId == 0
TaskIds == 0 .. MaxTasks

\* Query parameters of GET /tasks.
MaxPage == 2
MaxLimit == 2
SortFields == {"title", "status", "created_at"}
StatusFilters == {None, "pending"}
TitleFilters == {None, "B", "a.c"}

\* Where the store raises PyMongoError during a call, if anywhere.
StoreFaults == {"none", "txn", "refetch"}

\* Whether the Redis client raises (redis.RedisError) during a call.
CacheFaults == {"none", "cache"}

----------------------------------------------------------------------------
(* Python helpers *)

\* Truthiness of an Optional[str]: None and "" are falsy.
Falsy(v) == v = None \/ v = ""

RECURSIVE LStrip(_)
LStrip(s) == IF s = "" THEN s
             ELSE IF Head(s) = " " THEN LStrip(Tail(s)) ELSE s

RECURSIVE RStrip(_)
RStrip(s) == IF s = "" THEN s
             ELSE IF SubSeq(s, Len(s), Len(s)) = " "
                  THEN RStrip(SubSeq(s, 1, Len(s) - 1)) ELSE s

\* str.strip()
Strip(s) == RStrip(LStrip(s))

\* bson.ObjectId(task_id) succeeds
ObjectIdValid(task_id) == task_id # MalformedId

\* find_one / cache.get found nothing
NoDoc == <<>>

----------------------------------------------------------------------------
(* app/utils/validators.py *)

allowed_statuses == {"pending", "in-progress", "completed"}

\* validate_task_data measuring the title as given, not trimmed.
validate_task_data_untrimmed(title, status) ==
    IF Falsy(title) \/ Len(title) < 3 THEN FALSE
    ELSE IF status \notin allowed_statuses THEN FALSE
    ELSE TRUE

validate_task_data(title, status) ==
    IF Falsy(title) \/ Len(Strip(title)) < 3 THEN FALSE
    ELSE IF status \notin allowed_statuses THEN FALSE
    ELSE TRUE

----------------------------------------------------------------------------
(* The cache: cache.set / cache.get / cache.delete and the JSON around them *)

CacheFields == <<"title", "description", "status", "user_id">>

\* json.dumps of a snapshot: the members in order, None written as null.
json_dumps(d) ==
    [i \in 1 .. Len(CacheFields) |->
        <<CacheFields[i],
          IF d[CacheFields[i]] = None THEN <<"null">>
          ELSE <<"str", d[CacheFields[i]]>> >>]

\* json.loads reading null as the text "null".
json_loads_null_as_text(text) ==
    [k \in {text[i][1] : i \in DOMAIN text} |->
        LET m == (CHOOSE i \in DOMAIN text : text[i][1] = k)
        IN  IF text[m][2][1] = "null" THEN "null" ELSE text[m][2][2]]

\* json.loads of such a text.
json_loads(text) ==
    [k \in {text[i][1] : i \in DOMAIN text} |->
        LET m == (CHOOSE i \in DOMAIN text : text[i][1] = k)
        IN  IF text[m][2][1] = "null" THEN None ELSE text[m][2][2]]

CacheKey(task_id) == <<"task", task_id>>

\* cache.set(f"task:{task_id}", json.dumps(task_data), ex=300)
SetCached(c, task_id, task_data) ==
    [k \in DOMAIN c \cup {CacheKey(task_id)} |->
        IF k = CacheKey(task_id) THEN json_dumps(task_data) ELSE c[k]]

\* _get_cached_task
GetCached(c, task_id) ==
    IF CacheKey(task_id) \in DOMAIN c THEN json_loads(c[CacheKey(task_id)])
    ELSE NoDoc

\* _remove_cached_task
\* cache.delete that leaves the key in place.
RemoveCached_keeping(c, task_id) == c

RemoveCached(c, task_id) ==
    [k \in DOMAIN c \ {CacheKey(task_id)} |-> c[k]]

\* The snapshot the service caches for a document.
Snapshot(doc) ==
    [title |-> doc.title, description |-> doc.description,
     status |-> doc.status, user_id |-> doc.user_id]

\* The dictionary the service returns for a document read from the store.
Serialized(id, doc) ==
    [id |-> id, title |-> doc.title, description |-> doc.description,
     status |-> doc.status]

----------------------------------------------------------------------------
(* The store *)

\* find_one({'_id': ObjectId(task_id), 'user_id': user_id})
FindOwned(t, task_id, user_id) ==
    IF task_id \in DOMAIN t /\ t[task_id].user_id = user_id
    THEN t[task_id] ELSE NoDoc

\* The row replaced by the update: a field the update omits is lost.
SetFields_replacing(doc, updates) ==
    [k \in DOMAIN doc \cup DOMAIN updates |->
        IF k \in DOMAIN updates THEN updates[k]
        ELSE IF k = "user_id" THEN doc[k] ELSE None]

\* update_one(..., {'$set': updates}) on the row the filter matches
SetFields(doc, updates) ==
    [k \in DOMAIN doc \cup DOMAIN updates |->
        IF k \in DOMAIN updates THEN updates[k] ELSE doc[k]]

----------------------------------------------------------------------------
(* The record of a call *)

NoCall == [op |-> "none", user |-> None, id |-> MalformedId,
           fault |-> "none", kind |-> "none", value |-> None]

Call(op, user, id, fault, kind, value) ==
    [op |-> op, user |-> user, id |-> id, fault |-> fault, kind |-> kind,
     value |-> value]

\* The workers that serve requests concurrently, and a worker at rest.
Workers == {1, 2}
Idle == [at |-> "idle"]
NoWorkers == [w \in Workers |-> Idle]

Init ==
    /\ tasks = <<>>
    /\ cache = <<>>
    /\ nextId = 1
    /\ calls = 0
    /\ last = NoCall
    /\ users = <<>>
    /\ reqs = NoWorkers
    /\ ttl = <<>>
    /\ now = 0

----------------------------------------------------------------------------
(* TaskService.create_task: what it returns or raises, and the store and
   cache it leaves; n is the ObjectId the insert assigns *)

\* create_task caching the task before the transaction has committed.
create_task_caching_first(t, c, n, user_id, title, description, status, fault) ==
    LET keep(kind) == [kind |-> kind, value |-> None, tasks |-> t, cache |-> c]
        doc == [title |-> title, description |-> description,
                status |-> status, user_id |-> user_id]
    IN  IF ~validate_task_data(title, status) THEN keep("InvalidInput")
        ELSE IF fault = "txn"
        THEN [kind |-> "StorageFailure", value |-> None, tasks |-> t,
              cache |-> SetCached(c, n, doc)]
        ELSE [kind |-> "ok", value |-> n,
              tasks |-> [i \in DOMAIN t \cup {n} |->
                            IF i = n THEN doc ELSE t[i]],
              cache |-> SetCached(c, n, doc)]

create_task(t, c, n, user_id, title, description, status, fault) ==
    LET keep(kind) == [kind |-> kind, value |-> None, tasks |-> t, cache |-> c]
        doc == [title |-> title, description |-> description,
                status |-> status, user_id |-> user_id]
    IN  IF ~validate_task_data(title, status) THEN keep("InvalidInput")
        ELSE IF fault = "txn" THEN keep("StorageFailure")
        ELSE IF fault = "cache"
        THEN [kind |-> "Unhandled", value |-> None,
              tasks |-> [i \in DOMAIN t \cup {n} |->
                            IF i = n THEN doc ELSE t[i]],
              cache |-> c]
        ELSE [kind |-> "ok", value |-> n,
              tasks |-> [i \in DOMAIN t \cup {n} |->
                            IF i = n THEN doc ELSE t[i]],
              cache |-> SetCached(c, n, doc)]

CreateTask(user_id, title, description, status, fault) ==
    /\ calls < MaxCalls
    /\ nextId <= MaxTasks
    /\ calls' = calls + 1
    /\ LET r == create_task(tasks, cache, nextId, user_id, title, description,
                            status, fault)
       IN  /\ tasks' = r.tasks
           /\ cache' = r.cache
           /\ nextId' = IF nextId \in DOMAIN r.tasks THEN nextId + 1
                        ELSE nextId
           /\ last' = Call("create", user_id, MalformedId, fault, r.kind,
                           r.value)
    /\ UNCHANGED <<users, reqs, ttl, now>>

----------------------------------------------------------------------------
(* MongoDB's comparison of the values a sort key can hold, and its regular
   expression match, for the characters the model's texts are made of *)

\* ASCII order of the characters in use.
Alphabet == " -ABCDEFGHIJKLMNOPQRSTUVWXYZabcdefghijklmnopqrstuvwxyz"
UpperCase == "ABCDEFGHIJKLMNOPQRSTUVWXYZ"
LowerCase == "abcdefghijklmnopqrstuvwxyz"

RECURSIVE IndexOf(_, _)
IndexOf(c, s) == IF s = "" THEN 0
                 ELSE IF Head(s) = c THEN 1
                 ELSE LET n == IndexOf(c, Tail(s)) IN IF n = 0 THEN 0 ELSE n + 1

Lower(c) == LET n == IndexOf(c, UpperCase)
            IN  IF n = 0 THEN c ELSE SubSeq(LowerCase, n, n)

\* Binary comparison of two strings.
RECURSIVE StrLess(_, _)
StrLess(a, b) ==
    IF b = "" THEN FALSE
    ELSE IF a = "" THEN TRUE
    ELSE IF Head(a) = Head(b) THEN StrLess(Tail(a), Tail(b))
    ELSE IndexOf(Head(a), Alphabet) < IndexOf(Head(b), Alphabet)

\* BSON order: null (also a missing field) sorts before every string.
KeyLess(a, b) ==
    IF b = None THEN FALSE
    ELSE IF a = None THEN TRUE
    ELSE StrLess(a, b)

\* The pattern matches a prefix of the text; "." stands for any character.
RECURSIVE MatchesAt(_, _)
MatchesAt(pattern, text) ==
    IF pattern = "" THEN TRUE
    ELSE IF text = "" THEN FALSE
    ELSE /\ \/ Head(pattern) = "."
            \/ Lower(Head(pattern)) = Lower(Head(text))
         /\ MatchesAt(Tail(pattern), Tail(text))

\* {'$regex': pattern, '$options': 'i'}: an unanchored, case-insensitive
\* search; a field that holds no string does not match.
RECURSIVE RegexSearch(_, _)
RegexSearch(pattern, text) ==
    IF text = None THEN FALSE
    ELSE \/ MatchesAt(pattern, text)
         \/ text # "" /\ RegexSearch(pattern, Tail(text))

----------------------------------------------------------------------------
(* TaskService.get_user_tasks *)

\* The ids of the documents the query selects.
Matching(t, user_id, status_filter, title_filter) ==
    {i \in DOMAIN t :
        /\ t[i].user_id = user_id
        /\ ~Falsy(status_filter) => t[i].status = status_filter
        /\ ~Falsy(title_filter) => RegexSearch(title_filter, t[i].title)}

\* The value of the sort key in a document; no document has created_at.
SortKey(doc, sort_by) == IF sort_by \in DOMAIN doc THEN doc[sort_by] ELSE None

\* The orders find(query).sort(sort_by, direction) can return the selected
\* documents in: every order MongoDB's comparison allows, documents with
\* equal keys in any order.
SortedOrders(t, ids, sort_by, sort_order) ==
    {s \in [1 .. Cardinality(ids) -> ids] :
        /\ \A i, j \in DOMAIN s : i # j => s[i] # s[j]
        /\ \A i, j \in DOMAIN s : i < j =>
              IF sort_order = "asc"
              THEN ~KeyLess(SortKey(t[s[j]], sort_by), SortKey(t[s[i]], sort_by))
              ELSE ~KeyLess(SortKey(t[s[i]], sort_by), SortKey(t[s[j]], sort_by))}

\* A page taken one page too far: .skip(page * limit).limit(limit)
PageOf_skipping_a_page(s, page, limit) ==
    LET skip == page * limit
        n == IF Len(s) - skip > limit THEN limit
             ELSE IF Len(s) - skip > 0 THEN Len(s) - skip ELSE 0
    IN  [k \in 1 .. n |-> s[skip + k]]

\* .skip((page - 1) * limit).limit(limit)
PageOf(s, page, limit) ==
    LET skip == (page - 1) * limit
        n == IF Len(s) - skip > limit THEN limit
             ELSE IF Len(s) - skip > 0 THEN Len(s) - skip ELSE 0
    IN  [k \in 1 .. n |-> s[skip + k]]

RECURSIVE CacheAll_keeping_cached(_, _, _)
\* The loop caching only the tasks the cache does not hold yet.
CacheAll_keeping_cached(c, t, ids) ==
    IF ids = <<>> THEN c
    ELSE CacheAll_keeping_cached(
             IF CacheKey(Head(ids)) \in DOMAIN c THEN c
             ELSE SetCached(c, Head(ids), Snapshot(t[Head(ids)])),
             t, Tail(ids))

RECURSIVE CacheAll(_, _, _)
\* The loop that caches every task of the page.
CacheAll(c, t, ids) ==
    IF ids = <<>> THEN c
    ELSE CacheAll(SetCached(c, Head(ids), Snapshot(t[Head(ids)])), t, Tail(ids))

\* What get_user_tasks can return, and the cache it leaves: one outcome for
\* every order the store can return the selected documents in.
get_user_tasks(t, c, user_id, page, limit, sort_by, sort_order, status_filter, title_filter) ==
    LET ids == Matching(t, user_id, status_filter, title_filter)
        total == Cardinality(ids)
    IN  {LET found == PageOf(order, page, limit)
         IN  [kind |-> "ok",
              value |-> <<[k \in DOMAIN found |->
                             Serialized(found[k], t[found[k]])],
                          total>>,
              tasks |-> t,
              cache |-> CacheAll(c, t, found)] :
         order \in SortedOrders(t, ids, sort_by, sort_order)}

ListTasks(user_id, page, limit, sort_by, sort_order, status_filter, title_filter) ==
    /\ calls < MaxCalls
    /\ calls' = calls + 1
    /\ \E r \in get_user_tasks(tasks, cache, user_id, page, limit, sort_by,
                                sort_order, status_filter, title_filter) :
          /\ tasks' = r.tasks
          /\ cache' = r.cache
          /\ last' = Call("list", user_id, MalformedId, "none", r.kind,
                          r.value)
    /\ UNCHANGED <<nextId, users, reqs, ttl, now>>

----------------------------------------------------------------------------
(* TaskService.get_task_by_id: what it returns or raises, and the cache it
   leaves, as a function of the store and the cache it finds *)

\* get_task_by_id serving any cached entry, whoever its owner is.
get_task_by_id_trusting_cache(t, c, user_id, task_id, fault) ==
    LET cached_task == GetCached(c, task_id)
        task == FindOwned(t, task_id, user_id)
    IN  IF cached_task # NoDoc
        THEN [kind |-> "ok", value |-> cached_task, cache |-> c]
        ELSE IF ~ObjectIdValid(task_id) \/ fault = "refetch"
        THEN [kind |-> "InvalidInput", value |-> None, cache |-> c]
        ELSE IF task = NoDoc
        THEN [kind |-> "NotFound", value |-> None, cache |-> c]
        ELSE [kind |-> "ok", value |-> Serialized(task_id, task),
              cache |-> SetCached(c, task_id, Snapshot(task))]

\* get_task_by_id returning the row it read without caching it.
get_task_by_id_not_caching(t, c, user_id, task_id, fault) ==
    LET cached_task == GetCached(c, task_id)
        task == FindOwned(t, task_id, user_id)
    IN  IF cached_task # NoDoc /\ cached_task.user_id = user_id
        THEN [kind |-> "ok", value |-> cached_task, cache |-> c]
        ELSE IF ~ObjectIdValid(task_id) \/ fault = "refetch"
        THEN [kind |-> "InvalidInput", value |-> None, cache |-> c]
        ELSE IF task = NoDoc
        THEN [kind |-> "NotFound", value |-> None, cache |-> c]
        ELSE [kind |-> "ok", value |-> Serialized(task_id, task), cache |-> c]

\* get_task_by_id finding the row by _id alone and caching it as the
\* caller's.
get_task_by_id_caching_caller(t, c, user_id, task_id, fault) ==
    LET cached_task == GetCached(c, task_id)
        task == IF task_id \in DOMAIN t THEN t[task_id] ELSE NoDoc
    IN  IF cached_task # NoDoc /\ cached_task.user_id = user_id
        THEN [kind |-> "ok", value |-> cached_task, cache |-> c]
        ELSE IF ~ObjectIdValid(task_id) \/ fault = "refetch"
        THEN [kind |-> "InvalidInput", value |-> None, cache |-> c]
        ELSE IF task = NoDoc
        THEN [kind |-> "NotFound", value |-> None, cache |-> c]
        ELSE [kind |-> "ok", value |-> Serialized(task_id, task),
              cache |-> SetCached(c, task_id,
                                  [Snapshot(task) EXCEPT !.user_id = user_id])]

get_task_by_id(t, c, user_id, task_id, fault) ==
    LET cached_task == GetCached(c, task_id)
        task == FindOwned(t, task_id, user_id)
    IN  IF fault = "cache"
        THEN [kind |-> "Unhandled", value |-> None, cache |-> c]
        ELSE IF cached_task # NoDoc /\ cached_task.user_id = user_id
        THEN [kind |-> "ok", value |-> cached_task, cache |-> c]
        ELSE IF ~ObjectIdValid(task_id) \/ fault = "refetch"
        THEN [kind |-> "InvalidInput", value |-> None, cache |-> c]
        ELSE IF task = NoDoc
        THEN [kind |-> "NotFound", value |-> None, cache |-> c]
        ELSE [kind |-> "ok", value |-> Serialized(task_id, task),
              cache |-> SetCached(c, task_id, Snapshot(task))]

GetTask(user_id, task_id, fault) ==
    /\ calls < MaxCalls
    /\ calls' = calls + 1
    /\ LET r == get_task_by_id(tasks, cache, user_id, task_id, fault)
       IN  /\ cache' = r.cache
           /\ last' = Call("get", user_id, task_id, fault, r.kind, r.value)
    /\ UNCHANGED <<tasks, nextId, users, reqs, ttl, now>>

----------------------------------------------------------------------------
(* app/routes/tasks.py: the request models in front of update_task *)

TaskFields == {"title", "description", "status"}

Opt(k, V) == {<<>>} \cup {(k :> v) : v \in V}

\* JSON bodies of a PUT or PATCH request: any of the three task fields, and
\* some with a member the request models do not declare.
PlainBodies ==
    {t @@ d @@ s : t \in Opt("title", Titles),
                   d \in Opt("description", Descriptions),
                   s \in Opt("status", Statuses)}

ForgedBodies ==
    {b @@ ("user_id" :> u) :
        b \in {<<>>, ("status" :> "completed"),
               ("title" :> "abc") @@ ("status" :> "completed")},
        u \in Users}

Bodies == PlainBodies \cup ForgedBodies

\* TaskUpdateRequest(**body) raises no ValidationError.  A validator is not
\* run for a member that is absent or null.
TaskUpdateRequestValid(body) ==
    /\ ("title" \in DOMAIN body /\ body.title # None)
          => ~(~Falsy(body.title) /\ Len(Strip(body.title)) < 3)
    /\ ("status" \in DOMAIN body /\ body.status # None)
          => ~(~Falsy(body.status) /\ body.status \notin allowed_statuses)

\* A request model that keeps the members it does not declare.
PatchFields_keeping_extras(body) == body

\* TaskUpdateRequest(**body).dict(exclude_unset=True): the declared fields
\* the body sets; a member the model does not declare is ignored.
PatchFields(body) == [k \in DOMAIN body \cap TaskFields |-> body[k]]

\* TaskCreateRequest(**body) raises no ValidationError: title and status are
\* required strings, each with its validator.
TaskCreateRequestValid(body) ==
    /\ "title" \in DOMAIN body /\ body.title # None
    /\ Len(Strip(body.title)) >= 3
    /\ "status" \in DOMAIN body /\ body.status # None
    /\ body.status \in allowed_statuses

\* TaskCreateRequest(**body).dict(): all three fields, description None
\* when the body does not carry it.
PutFields(body) ==
    [k \in TaskFields |->
        IF k \in DOMAIN body THEN body[k] ELSE None]

----------------------------------------------------------------------------
(* TaskService.update_task: what it returns or raises, and the store and
   cache it leaves *)

\* update_task whose queries select by _id alone.
update_task_any_owner(t, c, user_id, task_id, updates, fault) ==
    LET keep(kind) == [kind |-> kind, value |-> None, tasks |-> t, cache |-> c]
    IN  IF "status" \in DOMAIN updates /\ updates.status \notin allowed_statuses
        THEN keep("InvalidInput")
        ELSE IF ~ObjectIdValid(task_id) THEN keep("Unhandled")
        ELSE IF fault = "txn" THEN keep("StorageFailure")
        ELSE IF task_id \notin DOMAIN t THEN keep("NotFound")
        ELSE LET t2 == [t EXCEPT ![task_id] = SetFields(@, updates)]
                 r == get_task_by_id(t2, c, user_id, task_id, fault)
             IN  [kind |-> r.kind, value |-> r.value, tasks |-> t2,
                  cache |-> r.cache]

update_task(t, c, user_id, task_id, updates, fault) ==
    LET keep(kind) == [kind |-> kind, value |-> None, tasks |-> t, cache |-> c]
    IN  IF "status" \in DOMAIN updates /\ updates.status \notin allowed_statuses
        THEN keep("InvalidInput")
        ELSE IF ~ObjectIdValid(task_id) THEN keep("Unhandled")
        ELSE IF fault = "txn" THEN keep("StorageFailure")
        ELSE IF FindOwned(t, task_id, user_id) = NoDoc THEN keep("NotFound")
        ELSE LET t2 == [t EXCEPT ![task_id] = SetFields(@, updates)]
                 r == get_task_by_id(t2, c, user_id, task_id, fault)
             IN  [kind |-> r.kind, value |-> r.value, tasks |-> t2,
                  cache |-> r.cache]

UpdateTask(user_id, task_id, updates, fault) ==
    LET r == update_task(tasks, cache, user_id, task_id, updates, fault)
    IN  /\ tasks' = r.tasks
        /\ cache' = r.cache
        /\ last' = Call("update", user_id, task_id, fault, r.kind, r.value)
        /\ UNCHANGED <<nextId, users, reqs, ttl, now>>

\* PATCH /tasks/<task_id>
UpdateTaskPatch(user_id, task_id, body, fault) ==
    /\ calls < MaxCalls
    /\ calls' = calls + 1
    /\ IF ~TaskUpdateRequestValid(body)
       THEN /\ last' = Call("update", user_id, task_id, "none",
                            "InvalidInput", None)
            /\ UNCHANGED <<tasks, cache, nextId, users, reqs, ttl, now>>
       ELSE UpdateTask(user_id, task_id, PatchFields(body), fault)

\* PUT /tasks/<task_id>
UpdateTaskPut(user_id, task_id, body, fault) ==
    /\ calls < MaxCalls
    /\ calls' = calls + 1
    /\ IF ~TaskCreateRequestValid(body)
       THEN /\ last' = Call("update", user_id, task_id, "none",
                            "InvalidInput", None)
            /\ UNCHANGED <<tasks, cache, nextId, users, reqs, ttl, now>>
       ELSE UpdateTask(user_id, task_id, PutFields(body), fault)

----------------------------------------------------------------------------
(* TaskService.delete_task *)

\* delete_task telling a caller that the task is someone else's.
delete_task_forbidding(t, c, user_id, task_id, fault) ==
    LET keep(kind, value) ==
            [kind |-> kind, value |-> value, tasks |-> t, cache |-> c]
    IN  IF ~ObjectIdValid(task_id) THEN keep("Unhandled", None)
        ELSE IF fault = "txn" THEN keep("StorageFailure", None)
        ELSE IF task_id \notin DOMAIN t THEN keep("ok", FALSE)
        ELSE IF t[task_id].user_id # user_id THEN keep("Forbidden", None)
        ELSE [kind |-> "ok", value |-> TRUE,
              tasks |-> [i \in DOMAIN t \ {task_id} |-> t[i]],
              cache |-> RemoveCached(c, task_id)]

\* delete_task raising 404 itself when the caller owns no such row.
delete_task_raising(t, c, user_id, task_id, fault) ==
    LET keep(kind, value) ==
            [kind |-> kind, value |-> value, tasks |-> t, cache |-> c]
    IN  IF ~ObjectIdValid(task_id) THEN keep("Unhandled", None)
        ELSE IF fault = "txn" THEN keep("StorageFailure", None)
        ELSE IF FindOwned(t, task_id, user_id) = NoDoc
        THEN keep("NotFound", None)
        ELSE [kind |-> "ok", value |-> TRUE,
              tasks |-> [i \in DOMAIN t \ {task_id} |-> t[i]],
              cache |-> RemoveCached(c, task_id)]

delete_task(t, c, user_id, task_id, fault) ==
    LET keep(kind, value) ==
            [kind |-> kind, value |-> value, tasks |-> t, cache |-> c]
    IN  IF ~ObjectIdValid(task_id) THEN keep("Unhandled", None)
        ELSE IF fault = "txn" THEN keep("StorageFailure", None)
        ELSE IF FindOwned(t, task_id, user_id) = NoDoc THEN keep("ok", FALSE)
        ELSE IF fault = "cache"
        THEN [kind |-> "Unhandled", value |-> None,
              tasks |-> [i \in DOMAIN t \ {task_id} |-> t[i]], cache |-> c]
        ELSE [kind |-> "ok", value |-> TRUE,
              tasks |-> [i \in DOMAIN t \ {task_id} |-> t[i]],
              cache |-> RemoveCached(c, task_id)]

DeleteTask(user_id, task_id, fault) ==
    /\ calls < MaxCalls
    /\ calls' = calls + 1
    /\ LET r == delete_task(tasks, cache, user_id, task_id, fault)
       IN  /\ tasks' = r.tasks
           /\ cache' = r.cache
           /\ last' = Call("delete", user_id, task_id, fault, r.kind,
                           r.value)
    /\ UNCHANGED <<nextId, users, reqs, ttl, now>>

----------------------------------------------------------------------------
(* Redis drops a key 300 seconds after it was set *)

ExpireCacheEntry(task_id) ==
    /\ calls < MaxCalls
    /\ CacheKey(task_id) \in DOMAIN cache
    /\ cache' = RemoveCached(cache, task_id)
    /\ UNCHANGED <<tasks, nextId, calls, last, users, reqs, ttl, now>>

----------------------------------------------------------------------------

Next ==
    \/ \E u \in Users, t \in Titles, d \in Descriptions, s \in Statuses :
          CreateTask(u, t, d, s, "none")
    \/ \E u \in Users, page \in 1 .. MaxPage, limit \in 1 .. MaxLimit,
          sort_by \in SortFields, sort_order \in {"asc", "desc"},
          sf \in StatusFilters, tf \in TitleFilters :
          ListTasks(u, page, limit, sort_by, sort_order, sf, tf)
    \/ \E u \in Users, i \in TaskIds : GetTask(u, i, "none")
    \/ \E u \in Users, i \in TaskIds, b \in Bodies :
          UpdateTaskPatch(u, i, b, "none")
    \/ \E u \in Users, i \in TaskIds, b \in Bodies :
          UpdateTaskPut(u, i, b, "none")
    \/ \E u \in Users, i \in TaskIds : DeleteTask(u, i, "none")
    \/ \E i \in TaskIds : ExpireCacheEntry(i)

Spec == Init /\ [][Next]_vars

\* The same calls against a store that can fail: inside the transaction of
\* a write ("txn"), or in the find_one of get_task_by_id ("refetch").
\* The request bodies of the updates made against the failing store.
FaultBodies ==
    {("status" :> "completed"), ("title" :> ""),
     ("title" :> "abc") @@ ("status" :> "in-progress")}

NextFaults ==
    \/ \E u \in Users, t \in Titles, d \in Descriptions, s \in Statuses,
          f \in StoreFaults : CreateTask(u, t, d, s, f)
    \/ \E u \in Users, i \in TaskIds, f \in StoreFaults : GetTask(u, i, f)
    \/ \E u \in Users, i \in TaskIds, b \in FaultBodies, f \in StoreFaults :
          UpdateTaskPatch(u, i, b, f)
    \/ \E u \in Users, i \in TaskIds, b \in FaultBodies, f \in StoreFaults :
          UpdateTaskPut(u, i, b, f)
    \/ \E u \in Users, i \in TaskIds, f \in StoreFaults : DeleteTask(u, i, f)
    \/ \E i \in TaskIds : ExpireCacheEntry(i)

SpecFaults == Init /\ [][NextFaults]_vars

\* The same calls against a cache that can fail: cache.get, cache.set and
\* cache.delete raise, and no method catches what they raise.
NextCacheFaults ==
    \/ \E u \in Users, t \in Titles, d \in Descriptions, s \in Statuses,
          f \in CacheFaults : CreateTask(u, t, d, s, f)
    \/ \E u \in Users, i \in TaskIds, f \in CacheFaults : GetTask(u, i, f)
    \/ \E u \in Users, i \in TaskIds, b \in FaultBodies, f \in CacheFaults :
          UpdateTaskPatch(u, i, b, f)
    \/ \E u \in Users, i \in TaskIds, f \in CacheFaults : DeleteTask(u, i, f)
    \/ \E i \in TaskIds : ExpireCacheEntry(i)

SpecCacheFaults == Init /\ [][NextCacheFaults]_vars

----------------------------------------------------------------------------
(* The life time of the cache entries.  cache.set(..., ex=300) gives the key
   300 seconds; Redis counts them down whatever is read and drops the key
   when none is left.  Time passes in steps of TickSeconds *)

TTL == 300
TickSeconds == 100

\* The documents and updates of the calls made while time is kept.
TtlStatuses == {"pending", "completed"}
TtlUpdates == {("status" :> "completed"), ("title" :> "xyz")}

\* The keys a call has put, read off what it answered: a get or re-fetch
\* served from the cache puts its key as well.
PutKeys_on_hit(op, r, task_id) ==
    IF r.kind # "ok" THEN {}
    ELSE IF op = "create" THEN {CacheKey(r.value)}
    ELSE IF op = "list"
    THEN {CacheKey(r.value[1][k].id) : k \in DOMAIN r.value[1]}
    ELSE IF op \in {"get", "update"} THEN {CacheKey(task_id)}
    ELSE {}

\* The keys a call has put, read off what it answered: create_task puts
\* the task created, get_user_tasks every task listed, get_task_by_id (and
\* through it update_task) the task it read from the store, which is the
\* answer that carries an id; delete_task puts none.
PutKeys(op, r, task_id) ==
    IF r.kind # "ok" THEN {}
    ELSE IF op = "create" THEN {CacheKey(r.value)}
    ELSE IF op = "list"
    THEN {CacheKey(r.value[1][k].id) : k \in DOMAIN r.value[1]}
    ELSE IF op \in {"get", "update"}
    THEN IF "id" \in DOMAIN r.value THEN {CacheKey(task_id)} ELSE {}
    ELSE {}

\* The seconds left to the keys of cache c once the keys `put` were set.
SecondsLeft(tl, c, put) ==
    [k \in DOMAIN c |-> IF k \in put THEN TTL ELSE tl[k]]

TtlCreateTask(user_id, title, description, status) ==
    /\ calls < MaxCalls
    /\ nextId <= MaxTasks
    /\ calls' = calls + 1
    /\ LET r == create_task(tasks, cache, nextId, user_id, title, description,
                            status, "none")
       IN  /\ tasks' = r.tasks
           /\ cache' = r.cache
           /\ ttl' = SecondsLeft(ttl, r.cache, PutKeys("create", r, nextId))
           /\ nextId' = IF nextId \in DOMAIN r.tasks THEN nextId + 1
                        ELSE nextId
           /\ last' = Call("create", user_id, MalformedId, "none", r.kind,
                           r.value)
    /\ UNCHANGED <<users, reqs, now>>

TtlListTasks(user_id, page, limit) ==
    /\ calls < MaxCalls
    /\ calls' = calls + 1
    /\ \E r \in get_user_tasks(tasks, cache, user_id, page, limit, "title",
                                "asc", None, None) :
          /\ cache' = r.cache
          /\ ttl' = SecondsLeft(ttl, r.cache, PutKeys("list", r, MalformedId))
          /\ last' = Call("list", user_id, MalformedId, "none", r.kind,
                          r.value)
    /\ UNCHANGED <<tasks, nextId, users, reqs, now>>

TtlGetTask(user_id, task_id) ==
    /\ calls < MaxCalls
    /\ calls' = calls + 1
    /\ LET r == get_task_by_id(tasks, cache, user_id, task_id, "none")
       IN  /\ cache' = r.cache
           /\ ttl' = SecondsLeft(ttl, r.cache, PutKeys("get", r, task_id))
           /\ last' = Call("get", user_id, task_id, "none", r.kind, r.value)
    /\ UNCHANGED <<tasks, nextId, users, reqs, now>>

TtlUpdateTask(user_id, task_id, updates) ==
    /\ calls < MaxCalls
    /\ calls' = calls + 1
    /\ LET r == update_task(tasks, cache, user_id, task_id, updates, "none")
       IN  /\ tasks' = r.tasks
           /\ cache' = r.cache
           /\ ttl' = SecondsLeft(ttl, r.cache, PutKeys("update", r, task_id))
           /\ last' = Call("update", user_id, task_id, "none", r.kind,
                           r.value)
    /\ UNCHANGED <<nextId, users, reqs, now>>

TtlDeleteTask(user_id, task_id) ==
    /\ calls < MaxCalls
    /\ calls' = calls + 1
    /\ LET r == delete_task(tasks, cache, user_id, task_id, "none")
       IN  /\ tasks' = r.tasks
           /\ cache' = r.cache
           /\ ttl' = SecondsLeft(ttl, r.cache, PutKeys("delete", r, task_id))
           /\ last' = Call("delete", user_id, task_id, "none", r.kind,
                           r.value)
    /\ UNCHANGED <<nextId, users, reqs, now>>

\* TickSeconds pass: every key has that much less left, and the keys with
\* nothing left are gone.
Tick ==
    /\ DOMAIN ttl # {}
    /\ LET alive == {k \in DOMAIN ttl : ttl[k] > TickSeconds}
       IN  /\ ttl' = [k \in alive |-> ttl[k] - TickSeconds]
           /\ cache' = [k \in alive |-> cache[k]]
    /\ UNCHANGED <<tasks, nextId, calls, last, users, reqs, now>>

NextTtl ==
    \/ \E u \in Users, s \in TtlStatuses : TtlCreateTask(u, "abc", "d", s)
    \/ \E u \in Users, page \in 1 .. MaxPage, limit \in 1 .. MaxLimit :
          TtlListTasks(u, page, limit)
    \/ \E u \in Users, i \in TaskIds : TtlGetTask(u, i)
    \/ \E u \in Users, i \in TaskIds, upd \in TtlUpdates :
          TtlUpdateTask(u, i, upd)
    \/ \E u \in Users, i \in TaskIds : TtlDeleteTask(u, i)
    \/ Tick

SpecTtl == Init /\ [][NextTtl]_vars

----------------------------------------------------------------------------
(* update_task and delete_task served concurrently.  A worker takes one
   request through the calls the method makes, one call per step; the calls
   made with session=session belong to one MongoDB transaction, which reads
   the snapshot taken by its first read and whose write fails with a
   WriteConflict (a PyMongoError) when the document was changed, deleted or
   written by another transaction since *)

\* The updates of the concurrent requests, and the ids they name.
TxnUpdates == {("status" :> "completed"), ("title" :> "xyz")}
TxnIds == {1, 2}

\* A worker starting to serve a request.
Serving(at, op, user_id, task_id, updates) ==
    [at |-> at, op |-> op, user |-> user_id, id |-> task_id,
     updates |-> updates, found |-> NoDoc, matched |-> 0,
     kind |-> "none", value |-> None]

\* The request is answered.
Done(r, kind, value) == [r EXCEPT !.at = "done", !.kind = kind, !.value = value]

\* A store that holds one task of alice, cached at creation or expired since.
InitTxn ==
    LET doc == [title |-> "abc", description |-> None, status |-> "pending",
                user_id |-> "alice"]
    IN  /\ tasks = <<doc>>
        /\ cache \in {<<>>, SetCached(<<>>, 1, doc)}
        /\ nextId = 2
        /\ calls = 0
        /\ last = NoCall
        /\ users = <<>>
        /\ reqs = NoWorkers
        /\ ttl = <<>>
        /\ now = 0

\* update_task is called: the status is validated, the session opened.
StartUpdate(w, user_id, task_id, updates) ==
    /\ reqs[w].at = "idle"
    /\ reqs' = [reqs EXCEPT ![w] =
          IF "status" \in DOMAIN updates
                /\ updates.status \notin allowed_statuses
          THEN Done(Serving("find", "update", user_id, task_id, updates),
                    "InvalidInput", None)
          ELSE Serving("find", "update", user_id, task_id, updates)]
    /\ UNCHANGED <<tasks, cache, nextId, calls, last, users, ttl, now>>

\* delete_task is called: the session is opened.
StartDelete(w, user_id, task_id) ==
    /\ reqs[w].at = "idle"
    /\ reqs' = [reqs EXCEPT ![w] =
                   Serving("find", "delete", user_id, task_id, <<>>)]
    /\ UNCHANGED <<tasks, cache, nextId, calls, last, users, ttl, now>>

\* start_transaction and the ownership check: find_one in the session.  No
\* row: the transaction is aborted; update_task raises 404, delete_task
\* returns False.
TxnFind(w) ==
    /\ reqs[w].at = "find"
    /\ LET r == reqs[w]
           task == FindOwned(tasks, r.id, r.user)
       IN  reqs' = [reqs EXCEPT ![w] =
              IF task = NoDoc
              THEN IF r.op = "update" THEN Done(r, "NotFound", None)
                   ELSE Done(r, "ok", FALSE)
              ELSE [r EXCEPT !.at = "write", !.found = task]]
    /\ UNCHANGED <<tasks, cache, nextId, calls, last, users, ttl, now>>

\* A store whose writes never conflict: the calls made outside a transaction.
WriteConflict_never(t, rs, w) == FALSE

\* The write of worker w meets a document that no longer is the one its
\* transaction read, or one another open transaction has written.
WriteConflict(t, rs, w) ==
    \/ rs[w].id \notin DOMAIN t
    \/ t[rs[w].id] # rs[w].found
    \/ \E v \in Workers \ {w} : rs[v].at = "commit" /\ rs[v].id = rs[w].id

\* update_one / delete_one in the session.  A conflict raises PyMongoError:
\* the handler aborts the transaction and raises 500.  `matched` is the
\* number of documents the write applies to.
TxnWrite(w) ==
    /\ reqs[w].at = "write"
    /\ LET r == reqs[w]
       IN  reqs' = [reqs EXCEPT ![w] =
              IF WriteConflict(tasks, reqs, w)
              THEN Done(r, "StorageFailure", None)
              ELSE [r EXCEPT !.at = "commit",
                             !.matched = IF r.id \in DOMAIN tasks /\
                                            tasks[r.id].user_id = r.user
                                         THEN 1 ELSE 0]]
    /\ UNCHANGED <<tasks, cache, nextId, calls, last, users, ttl, now>>

\* The store once the write of request r is committed.
ApplyWrite(t, r) ==
    IF r.id \notin DOMAIN t \/ t[r.id].user_id # r.user THEN t
    ELSE IF r.op = "delete" THEN [i \in DOMAIN t \ {r.id} |-> t[i]]
    ELSE [t EXCEPT ![r.id] = SetFields(@, r.updates)]

\* commit_transaction
TxnCommit(w) ==
    /\ reqs[w].at = "commit"
    /\ tasks' = ApplyWrite(tasks, reqs[w])
    /\ reqs' = [reqs EXCEPT ![w].at =
                   IF reqs[w].op = "delete" THEN "uncache" ELSE "cacheget"]
    /\ UNCHANGED <<cache, nextId, calls, last, users, ttl, now>>

\* update_task re-fetches: get_task_by_id looks into the cache.
RefetchCached(w) ==
    /\ reqs[w].at = "cacheget"
    /\ LET r == reqs[w]
           cached_task == GetCached(cache, r.id)
       IN  reqs' = [reqs EXCEPT ![w] =
              IF cached_task # NoDoc /\ cached_task.user_id = r.user
              THEN Done(r, "ok", cached_task)
              ELSE [r EXCEPT !.at = "refind"]]
    /\ UNCHANGED <<tasks, cache, nextId, calls, last, users, ttl, now>>

\* get_task_by_id reads the store, outside any transaction.
RefetchFind(w) ==
    /\ reqs[w].at = "refind"
    /\ LET r == reqs[w]
           task == FindOwned(tasks, r.id, r.user)
       IN  reqs' = [reqs EXCEPT ![w] =
              IF task = NoDoc THEN Done(r, "NotFound", None)
              ELSE [r EXCEPT !.at = "recache", !.found = task]]
    /\ UNCHANGED <<tasks, cache, nextId, calls, last, users, ttl, now>>

\* get_task_by_id caches the row it read and returns it.
RefetchCache(w) ==
    /\ reqs[w].at = "recache"
    /\ cache' = SetCached(cache, reqs[w].id, Snapshot(reqs[w].found))
    /\ reqs' = [reqs EXCEPT ![w] =
                   Done(@, "ok", Serialized(@.id, @.found))]
    /\ UNCHANGED <<tasks, nextId, calls, last, users, ttl, now>>

\* delete_task removes the cache entry and returns deleted_count > 0.
DeleteUncache(w) ==
    /\ reqs[w].at = "uncache"
    /\ cache' = RemoveCached(cache, reqs[w].id)
    /\ reqs' = [reqs EXCEPT ![w] = Done(@, "ok", @.matched > 0)]
    /\ UNCHANGED <<tasks, nextId, calls, last, users, ttl, now>>

NextTxn ==
    \/ \E w \in Workers, u \in Users, i \in TxnIds, upd \in TxnUpdates :
          StartUpdate(w, u, i, upd)
    \/ \E w \in Workers, u \in Users, i \in TxnIds : StartDelete(w, u, i)
    \/ \E w \in Workers : TxnFind(w)
    \/ \E w \in Workers : TxnWrite(w)
    \/ \E w \in Workers : TxnCommit(w)
    \/ \E w \in Workers : RefetchCached(w)
    \/ \E w \in Workers : RefetchFind(w)
    \/ \E w \in Workers : RefetchCache(w)
    \/ \E w \in Workers : DeleteUncache(w)

SpecTxn == InitTxn /\ [][NextTxn]_vars

\* The reads served next to them.  get_task_by_id is called: its steps are
\* those of the re-fetch of update_task.
StartGet(w, user_id, task_id) ==
    /\ reqs[w].at = "idle"
    /\ reqs' = [reqs EXCEPT ![w] =
                   Serving("cacheget", "get", user_id, task_id, <<>>)]
    /\ UNCHANGED <<tasks, cache, nextId, calls, last, users, ttl, now>>

\* get_user_tasks is called with its defaults: no filter, first page.
StartList(w, user_id) ==
    /\ reqs[w].at = "idle"
    /\ reqs' = [reqs EXCEPT ![w] =
                   Serving("listfind", "list", user_id, MalformedId, <<>>)]
    /\ UNCHANGED <<tasks, cache, nextId, calls, last, users, ttl, now>>

\* count_documents and find: the documents of the caller, as they are now.
ListFind(w) ==
    /\ reqs[w].at = "listfind"
    /\ reqs' = [reqs EXCEPT ![w].at = "listcache",
                            ![w].found =
                                [i \in Matching(tasks, reqs[w].user, None,
                                                None) |-> tasks[i]]]
    /\ UNCHANGED <<tasks, cache, nextId, calls, last, users, ttl, now>>

RECURSIVE CacheDocs(_, _)
\* The loop that caches the documents read, one cache.set for each.
CacheDocs(c, docs) ==
    IF DOMAIN docs = {} THEN c
    ELSE LET i == CHOOSE j \in DOMAIN docs : TRUE
         IN  CacheDocs(SetCached(c, i, Snapshot(docs[i])),
                       [j \in DOMAIN docs \ {i} |-> docs[j]])

\* get_user_tasks caches the documents it read and returns them.
ListCache(w) ==
    /\ reqs[w].at = "listcache"
    /\ cache' = CacheDocs(cache, reqs[w].found)
    /\ reqs' = [reqs EXCEPT ![w] =
                   Done(@, "ok", {Serialized(i, @.found[i]) :
                                     i \in DOMAIN @.found})]
    /\ UNCHANGED <<tasks, nextId, calls, last, users, ttl, now>>

NextRead ==
    \/ NextTxn
    \/ \E w \in Workers, u \in Users, i \in TxnIds : StartGet(w, u, i)
    \/ \E w \in Workers, u \in Users : StartList(w, u)
    \/ \E w \in Workers : ListFind(w)
    \/ \E w \in Workers : ListCache(w)

SpecRead == InitTxn /\ [][NextRead]_vars

----------------------------------------------------------------------------
(* The session of a write: `with mongo.db.client.start_session() as session`
   and the calls the methods make on it.  pymongo's ClientSession keeps the
   state of its transaction (NONE, STARTING, IN_PROGRESS, COMMITTED,
   ABORTED): commit_transaction leaves it COMMITTED whether or not the
   commit went through, abort_transaction raises InvalidOperation unless a
   transaction is active, and leaving the `with` block ends the session,
   which aborts a transaction that is still active *)

\* Where the store raises PyMongoError during the transaction, if anywhere.
TxnFaults == {"none", "find", "write", "commit"}

\* A session as start_session() returns it: no transaction yet.
\* committed: a commit_transaction went through; aborted: an
\* abort_transaction was carried out; rejected: the session refused a call.
NewSession ==
    [state |-> "NONE", committed |-> FALSE, aborted |-> FALSE,
     rejected |-> FALSE]

\* session.start_transaction()
start_transaction(s) == [s EXCEPT !.state = "STARTING"]

\* A find_one, insert_one, update_one or delete_one with session=session.
run_in_transaction(s) ==
    IF s.state = "STARTING" THEN [s EXCEPT !.state = "IN_PROGRESS"] ELSE s

\* session.commit_transaction(); fails: the store raises during the commit.
commit_transaction(s, fails) ==
    IF s.state \in {"NONE", "ABORTED"} THEN [s EXCEPT !.rejected = TRUE]
    ELSE [s EXCEPT !.state = "COMMITTED",
                   !.committed = s.committed \/ ~fails]

\* session.abort_transaction()
abort_transaction(s) ==
    IF s.state \in {"STARTING", "IN_PROGRESS"}
    THEN [s EXCEPT !.state = "ABORTED", !.aborted = TRUE]
    ELSE [s EXCEPT !.rejected = TRUE]

\* Leaving the `with` block: the session ends, an active transaction is
\* aborted.
end_session(s) ==
    IF s.state \in {"STARTING", "IN_PROGRESS"} THEN abort_transaction(s)
    ELSE s

\* except PyMongoError: session.abort_transaction(), then raise 500; an
\* abort_transaction that raises takes the place of the 500.
HandleStoreError(s) ==
    LET a == abort_transaction(s)
    IN  [session |-> end_session(a),
         kind |-> IF a.rejected THEN "Unhandled" ELSE "StorageFailure"]

\* session.commit_transaction() and what follows it inside the `with`.
CommitAndLeave(s, fault) ==
    IF fault = "commit" THEN HandleStoreError(commit_transaction(s, TRUE))
    ELSE [session |-> end_session(commit_transaction(s, FALSE)),
          kind |-> "ok"]

\* The session of create_task and how the transaction ends.
create_task_session(title, status, fault) ==
    IF ~validate_task_data(title, status)
    THEN [session |-> NewSession, kind |-> "InvalidInput"]
    ELSE LET s == run_in_transaction(start_transaction(NewSession))
         IN  IF fault = "write" THEN HandleStoreError(s)
             ELSE CommitAndLeave(s, fault)

\* The session of update_task; found: the ownership check finds the row.
update_task_session(task_id, updates, found, fault) ==
    IF "status" \in DOMAIN updates /\ updates.status \notin allowed_statuses
    THEN [session |-> NewSession, kind |-> "InvalidInput"]
    ELSE LET s == start_transaction(NewSession)
         IN  IF ~ObjectIdValid(task_id)
             THEN [session |-> end_session(s), kind |-> "Unhandled"]
             ELSE IF fault = "find"
             THEN HandleStoreError(run_in_transaction(s))
             ELSE IF ~found
             THEN [session |->
                      end_session(abort_transaction(run_in_transaction(s))),
                   kind |-> "NotFound"]
             ELSE IF fault = "write"
             THEN HandleStoreError(run_in_transaction(s))
             ELSE CommitAndLeave(run_in_transaction(s), fault)

\* The session of delete_task.
delete_task_session(task_id, found, fault) ==
    LET s == start_transaction(NewSession)
    IN  IF ~ObjectIdValid(task_id)
        THEN [session |-> end_session(s), kind |-> "Unhandled"]
        ELSE IF fault = "find" THEN HandleStoreError(run_in_transaction(s))
        ELSE IF ~found
        THEN [session |->
                 end_session(abort_transaction(run_in_transaction(s))),
              kind |-> "ok"]
        ELSE IF fault = "write" THEN HandleStoreError(run_in_transaction(s))
        ELSE CommitAndLeave(run_in_transaction(s), fault)

\* The fault of the sequential model that leaves the store as this one does.
StoreFaultOf(fault) == IF fault = "none" THEN "none" ELSE "txn"

\* The record of a call with the session it leaves behind.
SessionCall(op, user, id, fault, kind, value, session) ==
    [op |-> op, user |-> user, id |-> id, fault |-> fault, kind |-> kind,
     value |-> value, session |-> session]

\* A call whose transaction may fail anywhere.  A commit that fails leaves
\* it to the store whether the write is applied.
CreateTaskInSession(user_id, title, description, status, fault) ==
    /\ calls < MaxCalls
    /\ nextId <= MaxTasks
    /\ calls' = calls + 1
    /\ LET r == create_task(tasks, cache, nextId, user_id, title,
                            description, status, StoreFaultOf(fault))
           q == create_task_session(title, status, fault)
           w == create_task(tasks, cache, nextId, user_id, title,
                            description, status, "none")
       IN  IF fault = "commit" /\ q.kind # "InvalidInput"
           THEN /\ tasks' \in {tasks, w.tasks}
                /\ cache' = cache
                /\ nextId' = IF nextId \in DOMAIN tasks' THEN nextId + 1
                             ELSE nextId
                /\ last' = SessionCall("create", user_id, MalformedId, fault,
                                       q.kind, None, q.session)
           ELSE /\ tasks' = r.tasks
                /\ cache' = r.cache
                /\ nextId' = IF nextId \in DOMAIN r.tasks THEN nextId + 1
                             ELSE nextId
                /\ last' = SessionCall("create", user_id, MalformedId, fault,
                                       r.kind, r.value, q.session)
    /\ UNCHANGED <<users, reqs, ttl, now>>

UpdateTaskInSession(user_id, task_id, updates, fault) ==
    /\ calls < MaxCalls
    /\ calls' = calls + 1
    /\ LET found == FindOwned(tasks, task_id, user_id) # NoDoc
           r == update_task(tasks, cache, user_id, task_id, updates,
                            StoreFaultOf(fault))
           q == update_task_session(task_id, updates, found, fault)
           w == update_task(tasks, cache, user_id, task_id, updates, "none")
       IN  IF fault = "commit" /\ q.kind = "Unhandled"
                /\ ObjectIdValid(task_id)
           THEN /\ tasks' \in {tasks, w.tasks}
                /\ cache' = cache
                /\ last' = SessionCall("update", user_id, task_id, fault,
                                       q.kind, None, q.session)
           ELSE /\ tasks' = r.tasks
                /\ cache' = r.cache
                /\ last' = SessionCall("update", user_id, task_id, fault,
                                       r.kind, r.value, q.session)
    /\ UNCHANGED <<nextId, users, reqs, ttl, now>>

DeleteTaskInSession(user_id, task_id, fault) ==
    /\ calls < MaxCalls
    /\ calls' = calls + 1
    /\ LET found == FindOwned(tasks, task_id, user_id) # NoDoc
           r == delete_task(tasks, cache, user_id, task_id,
                            StoreFaultOf(fault))
           q == delete_task_session(task_id, found, fault)
           w == delete_task(tasks, cache, user_id, task_id, "none")
       IN  IF fault = "commit" /\ q.kind = "Unhandled"
                /\ ObjectIdValid(task_id)
           THEN /\ tasks' \in {tasks, w.tasks}
                /\ cache' = cache
                /\ last' = SessionCall("delete", user_id, task_id, fault,
                                       q.kind, None, q.session)
           ELSE /\ tasks' = r.tasks
                /\ cache' = r.cache
                /\ last' = SessionCall("delete", user_id, task_id, fault,
                                       r.kind, r.value, q.session)
    /\ UNCHANGED <<nextId, users, reqs, ttl, now>>

NextSession ==
    \/ \E u \in Users, t \in Titles, d \in Descriptions, s \in Statuses,
          f \in TxnFaults \ {"find"} : CreateTaskInSession(u, t, d, s, f)
    \/ \E u \in Users, i \in TaskIds, upd \in TxnUpdates, f \in TxnFaults :
          UpdateTaskInSession(u, i, upd, f)
    \/ \E u \in Users, i \in TaskIds, f \in TxnFaults :
          DeleteTaskInSession(u, i, f)

SpecSession == Init /\ [][NextSession]_vars

----------------------------------------------------------------------------
(* app/models/user.py: User.create, as the register route calls it, served
   concurrently.  find_one and insert_one are two calls to the store, and the
   users collection has no unique index *)

MaxUsers == 3
Usernames == {"alice", "Alice", "al "}
Passwords == {"Passw0rd!", "Other123", "password"}
Digits == "0123456789"

\* re.search of a character class in a text.
RECURSIVE HasCharOf(_, _)
HasCharOf(class, text) ==
    IF text = "" THEN FALSE
    ELSE IndexOf(Head(text), class) > 0 \/ HasCharOf(class, Tail(text))

_validate_username(username) == ~Falsy(username) /\ Len(Strip(username)) >= 3

_validate_password(password) ==
    IF Len(password) < 8 THEN FALSE
    ELSE IF ~HasCharOf(UpperCase, password) THEN FALSE
    ELSE IF ~HasCharOf(LowerCase, password) THEN FALSE
    ELSE IF ~HasCharOf(Digits, password) THEN FALSE
    ELSE TRUE

\* The hash werkzeug stores: it determines the password, not the reverse.
generate_password_hash(password) == <<"hash", password>>

\* find_one({'username': username})
FindUser(us, username) ==
    IF \E i \in DOMAIN us : us[i].username = username
    THEN us[CHOOSE i \in DOMAIN us : us[i].username = username]
    ELSE NoDoc

\* A worker serving a registration.
Registering(at, username, password) ==
    [at |-> at, op |-> "register", username |-> username,
     password |-> password, kind |-> "none", value |-> None]

\* User.create is called: the username and the password are validated.
StartRegister(w, username, password) ==
    /\ reqs[w].at = "idle"
    /\ calls < MaxUsers
    /\ calls' = calls + 1
    /\ reqs' = [reqs EXCEPT ![w] =
          IF ~_validate_username(username) \/ ~_validate_password(password)
          THEN Done(Registering("userfind", username, password),
                    "InvalidInput", None)
          ELSE Registering("userfind", username, password)]
    /\ UNCHANGED <<tasks, cache, nextId, last, users, ttl, now>>

\* The check for an existing user; found: 409.
RegisterFind(w) ==
    /\ reqs[w].at = "userfind"
    /\ reqs' = [reqs EXCEPT ![w] =
          IF FindUser(users, @.username) # NoDoc
          THEN Done(@, "Conflict", None)
          ELSE [@ EXCEPT !.at = "userinsert"]]
    /\ UNCHANGED <<tasks, cache, nextId, calls, last, users, ttl, now>>

\* insert_one; the id of the new document is its place in the collection.
RegisterInsert(w) ==
    /\ reqs[w].at = "userinsert"
    /\ users' = Append(users,
                       [username |-> reqs[w].username,
                        password_hash |->
                            generate_password_hash(reqs[w].password)])
    /\ reqs' = [reqs EXCEPT ![w] = Done(@, "ok", Len(users) + 1)]
    /\ UNCHANGED <<tasks, cache, nextId, calls, last, ttl, now>>

\* The response is sent; the worker takes the next request.
Respond(w) ==
    /\ reqs[w].at = "done"
    /\ reqs' = [reqs EXCEPT ![w] = Idle]
    /\ UNCHANGED <<tasks, cache, nextId, calls, last, users, ttl, now>>

NextReg ==
    \/ \E w \in Workers, u \in Usernames, p \in Passwords :
          StartRegister(w, u, p)
    \/ \E w \in Workers : RegisterFind(w)
    \/ \E w \in Workers : RegisterInsert(w)
    \/ \E w \in Workers : Respond(w)

SpecReg == Init /\ [][NextReg]_vars

----------------------------------------------------------------------------
(* app/models/user.py and app/routes/auth.py, one call at a time: register,
   login, and the methods of User that change or reset a password.  A user
   document is kept without its _id, which is its place in the collection *)

MaxAuthCalls == 4
MaxNow == 7200
ResetSeconds == 3600
AuthTickSeconds == 1800

\* The tokens a caller may present: the uuid4 of a call, or one never issued.
Tokens == {<<"uuid", n>> : n \in 1 .. MaxAuthCalls} \cup {<<"uuid", 0>>}

\* The document find_one returns for the user at place i.
UserData(us, i) == [k \in DOMAIN us[i] \cup {"_id"} |-> IF k = "_id" THEN i ELSE us[i][k]]

\* cls(**user_data): User.__init__(username, password_hash, id=None) called
\* with the fields of a document as keyword arguments.
NewUser(user_data) ==
    IF /\ DOMAIN user_data \subseteq {"username", "password_hash", "id"}
       /\ {"username", "password_hash"} \subseteq DOMAIN user_data
    THEN [kind |-> "user", username |-> user_data.username,
          password_hash |-> user_data.password_hash,
          id |-> IF "id" \in DOMAIN user_data THEN user_data.id ELSE None]
    ELSE [kind |-> "TypeError"]

\* cls(username, password_hash, id=result.inserted_id): the instance
\* User.create returns for the user at place i.
UserInstance(us, i) ==
    [kind |-> "user", username |-> us[i].username,
     password_hash |-> us[i].password_hash, id |-> i]

\* User.get_by_username
get_by_username(us, username) ==
    IF \E i \in DOMAIN us : us[i].username = username
    THEN NewUser(UserData(us, CHOOSE i \in DOMAIN us :
                                  us[i].username = username))
    ELSE [kind |-> "none"]

\* werkzeug's check_password_hash
check_password_hash(password_hash, password) ==
    password_hash = generate_password_hash(password)

\* create_access_token(identity=str(user.id))
create_access_token(id) == <<"jwt", <<"str", id>> >>

\* POST /register: the request model, then User.create.
register(us, username, password) ==
    LET keep(kind) == [kind |-> kind, value |-> None, users |-> us]
    IN  IF Len(Strip(username)) < 3 \/ ~_validate_password(password)
        THEN keep("InvalidInput")
        ELSE IF ~_validate_username(username) THEN keep("InvalidInput")
        ELSE IF ~_validate_password(password) THEN keep("InvalidInput")
        ELSE IF FindUser(us, username) # NoDoc THEN keep("Conflict")
        ELSE [kind |-> "ok", value |-> Len(us) + 1,
              users |-> Append(us,
                  [username |-> username,
                   password_hash |-> generate_password_hash(password)])]

\* POST /login
login(us, username, password) ==
    LET user == get_by_username(us, username)
    IN  IF Len(Strip(username)) < 3
        THEN [kind |-> "InvalidInput", value |-> None]
        ELSE IF user.kind = "TypeError"
        THEN [kind |-> "Unhandled", value |-> None]
        ELSE IF user.kind = "none"
                  \/ ~check_password_hash(user.password_hash, password)
        THEN [kind |-> "InvalidCredentials", value |-> None]
        ELSE [kind |-> "ok", value |-> create_access_token(user.id)]

\* User.update_password on the instance `user`
update_password(us, user, new_password) ==
    IF ~_validate_password(new_password)
    THEN [kind |-> "InvalidInput", users |-> us]
    ELSE [kind |-> "ok",
          users |-> [i \in DOMAIN us |->
                       IF i = user.id
                       THEN [us[i] EXCEPT !.password_hash =
                                generate_password_hash(new_password)]
                       ELSE us[i]]]

\* User.generate_password_reset_token on the instance `user`; token is the
\* uuid4 drawn, t the time of the call.
generate_password_reset_token(us, user, token, t) ==
    [i \in DOMAIN us |->
        IF i = user.id
        THEN [k \in DOMAIN us[i] \cup {"reset_token", "reset_token_expiry"} |->
                IF k = "reset_token" THEN token
                ELSE IF k = "reset_token_expiry" THEN t + ResetSeconds
                ELSE us[i][k]]
        ELSE us[i]]

\* find_one({'reset_token': token, 'reset_token_expiry': {'$gt': now}})
Redeemable(us, token, t) ==
    {i \in DOMAIN us :
        /\ "reset_token" \in DOMAIN us[i] /\ us[i].reset_token = token
        /\ "reset_token_expiry" \in DOMAIN us[i]
        /\ us[i].reset_token_expiry > t}

\* User.reset_password
reset_password(us, token, new_password, t) ==
    IF Redeemable(us, token, t) = {}
    THEN [kind |-> "ok", value |-> FALSE, users |-> us]
    ELSE LET i == CHOOSE j \in Redeemable(us, token, t) :
                      \A m \in Redeemable(us, token, t) : j <= m
             user == NewUser(UserData(us, i))
         IN  IF user.kind = "TypeError"
             THEN [kind |-> "Unhandled", value |-> None, users |-> us]
             ELSE LET r == update_password(us, user, new_password)
                  IN  IF r.kind # "ok"
                      THEN [kind |-> r.kind, value |-> None, users |-> us]
                      ELSE [kind |-> "ok", value |-> TRUE,
                            users |-> [j \in DOMAIN us |->
                               IF j = user.id
                               THEN [k \in DOMAIN r.users[j] \
                                        {"reset_token", "reset_token_expiry"}
                                     |-> r.users[j][k]]
                               ELSE r.users[j]]]

Register(username, password) ==
    /\ calls < MaxAuthCalls
    /\ calls' = calls + 1
    /\ LET r == register(users, username, password)
       IN  /\ users' = r.users
           /\ last' = Call("register", username, MalformedId, "none", r.kind,
                           r.value)
    /\ UNCHANGED <<tasks, cache, nextId, reqs, ttl, now>>

Login(username, password) ==
    /\ calls < MaxAuthCalls
    /\ calls' = calls + 1
    /\ LET r == login(users, username, password)
       IN  last' = Call("login", username, MalformedId, "none", r.kind,
                        r.value)
    /\ UNCHANGED <<tasks, cache, nextId, users, reqs, ttl, now>>

\* A holder of the instance of user i changes the password.
ChangePassword(i, new_password) ==
    /\ calls < MaxAuthCalls
    /\ calls' = calls + 1
    /\ i \in DOMAIN users
    /\ LET r == update_password(users, UserInstance(users, i), new_password)
       IN  /\ users' = r.users
           /\ last' = Call("change", users[i].username, i, "none", r.kind,
                           None)
    /\ UNCHANGED <<tasks, cache, nextId, reqs, ttl, now>>

\* A holder of the instance of user i asks for a reset token: the uuid4
\* drawn is one no call has drawn before.
RequestReset(i) ==
    /\ calls < MaxAuthCalls
    /\ calls' = calls + 1
    /\ i \in DOMAIN users
    /\ users' = generate_password_reset_token(users, UserInstance(users, i),
                                              <<"uuid", calls'>>, now)
    /\ last' = Call("request_reset", users[i].username, i, "none", "ok",
                    <<"uuid", calls'>>)
    /\ UNCHANGED <<tasks, cache, nextId, reqs, ttl, now>>

ResetPassword(token, new_password) ==
    /\ calls < MaxAuthCalls
    /\ calls' = calls + 1
    /\ LET r == reset_password(users, token, new_password, now)
       IN  /\ users' = r.users
           /\ last' = Call("reset", token, MalformedId, "none", r.kind,
                           r.value)
    /\ UNCHANGED <<tasks, cache, nextId, reqs, ttl, now>>

\* Time passes.
AuthTick ==
    /\ now < MaxNow
    /\ now' = now + AuthTickSeconds
    /\ UNCHANGED <<tasks, cache, nextId, calls, last, users, reqs, ttl>>

NextAuth ==
    \/ \E u \in Usernames, p \in Passwords : Register(u, p)
    \/ \E u \in Usernames, p \in Passwords : Login(u, p)
    \/ \E i \in 1 .. MaxAuthCalls, p \in Passwords : ChangePassword(i, p)
    \/ \E i \in 1 .. MaxAuthCalls : RequestReset(i)
    \/ \E k \in Tokens, p \in Passwords : ResetPassword(k, p)
    \/ AuthTick

SpecAuth == Init /\ [][NextAuth]_vars

----------------------------------------------------------------------------
(* Properties *)

\* Well-formed task ids that name no row: never assigned, or deleted.
AbsentIds == (1 .. (MaxTasks + 1)) \ DOMAIN tasks

\* The request fields of the updates PATCH and PUT hand to update_task.
PatchUpdates == {PatchFields(b) : b \in {x \in Bodies : TaskUpdateRequestValid(x)}}
PutUpdates == {PutFields(b) : b \in {x \in Bodies : TaskCreateRequestValid(x)}}

\* C1: ownership isolation on reads.  In every reachable state, GetTask by a
\* user who does not own an existing task returns NotFound and no data,
\* whatever the cache holds; a GetTask that returned a task was made by the
\* task's owner, and an entry served from the cache carries the caller as its
\* embedded owner.
C1_OwnershipIsolation ==
    /\ \A i \in DOMAIN tasks : \A b \in Users \ {tasks[i].user_id} :
          LET r == get_task_by_id(tasks, cache, b, i, "none")
          IN  r.kind = "NotFound" /\ r.value = None
    /\ (last.op = "get" /\ last.id \in DOMAIN tasks
            /\ tasks[last.id].user_id # last.user)
          => last.kind = "NotFound" /\ last.value = None
    /\ (last.op = "get" /\ last.kind = "ok")
          => /\ last.id \in DOMAIN tasks
             /\ tasks[last.id].user_id = last.user
             /\ "user_id" \in DOMAIN last.value => last.value.user_id = last.user

\* A user has just asked for another user's task while the cache held it.
C1_Witness ==
    /\ last.op = "get" /\ last.kind = "NotFound"
    /\ last.id \in DOMAIN tasks
    /\ tasks[last.id].user_id # last.user
    /\ CacheKey(last.id) \in DOMAIN cache

\* C2: no existence leakage.  In every reachable state, for a caller who does
\* not own an existing task, GetTask, UpdateTask (with any update a request
\* can carry) and DeleteTask on that task's id have the outcome they have on
\* a well-formed id that names no row: the same result or error, the same
\* store and the same cache afterwards, whether or not the task is cached.
C2_NoExistenceLeak ==
    \A i \in DOMAIN tasks : \A b \in Users \ {tasks[i].user_id} :
        \A j \in AbsentIds :
            /\ get_task_by_id(tasks, cache, b, i, "none")
                  = get_task_by_id(tasks, cache, b, j, "none")
            /\ delete_task(tasks, cache, b, i, "none")
                  = delete_task(tasks, cache, b, j, "none")
            /\ \A u \in PatchUpdates \cup PutUpdates :
                  update_task(tasks, cache, b, i, u, "none")
                      = update_task(tasks, cache, b, j, u, "none")

\* A user has just tried to delete another user's cached task.
C2_Witness ==
    /\ last.op = "delete" /\ last.kind = "ok" /\ last.value = FALSE
    /\ last.id \in DOMAIN tasks
    /\ tasks[last.id].user_id # last.user
    /\ CacheKey(last.id) \in DOMAIN cache

\* Every update a request can hand to update_task, and the outcome of
\* update_task on it in the present state.
Updates == PatchUpdates \cup PutUpdates
UpdateOutcome(user_id, task_id, u) ==
    update_task(tasks, cache, user_id, task_id, u, "none")

\* C3, as claimed: UpdateTask by a caller who does not own the task
\* returns NotFound, whatever update the request carries, and leaves store
\* and cache as they were; UpdateTask by the owner with a valid status
\* succeeds.
C3_AsClaimed ==
    /\ \A i \in DOMAIN tasks : \A b \in Users \ {tasks[i].user_id} :
          \A u \in Updates :
             LET r == UpdateOutcome(b, i, u)
             IN  r.kind = "NotFound" /\ r.tasks = tasks /\ r.cache = cache
    /\ (last.op = "update" /\ last.id \in DOMAIN tasks
            /\ tasks[last.id].user_id # last.user)
          => last.kind = "NotFound"
    /\ \A i \in DOMAIN tasks : \A u \in Updates :
          ("status" \in DOMAIN u /\ u.status \in {"pending", "in-progress", "completed"})
             => UpdateOutcome(tasks[i].user_id, i, u).kind = "ok"

\* C3, amended: UpdateTask by a caller who does not own the task, or on an
\* id that names no row, never changes the store or the cache and never
\* answers Forbidden; it returns InvalidInput when the update carries a
\* status outside the three values (the status is validated before the
\* ownership check) and NotFound otherwise.  UpdateTask by the owner with a
\* valid status succeeds.
C3_UpdateByNonOwner ==
    /\ \A b \in Users : \A i \in DOMAIN tasks \cup AbsentIds :
          FindOwned(tasks, i, b) = NoDoc =>
             \A u \in Updates :
                LET r == UpdateOutcome(b, i, u)
                    badStatus ==
                        /\ "status" \in DOMAIN u
                        /\ u.status \notin {"pending", "in-progress", "completed"}
                IN  /\ r.kind = IF badStatus THEN "InvalidInput" ELSE "NotFound"
                    /\ r.tasks = tasks /\ r.cache = cache
    /\ \A i \in DOMAIN tasks : \A u \in Updates :
          ("status" \in DOMAIN u /\ u.status \in {"pending", "in-progress", "completed"})
             => UpdateOutcome(tasks[i].user_id, i, u).kind = "ok"
    /\ (last.op = "update" /\ ObjectIdValid(last.id)
            /\ FindOwned(tasks, last.id, last.user) = NoDoc)
          => last.kind \in {"NotFound", "InvalidInput"} /\ last.value = None

\* A user has just tried to update another user's task and got NotFound.
C3_Witness ==
    /\ last.op = "update" /\ last.kind = "NotFound"
    /\ last.id \in DOMAIN tasks
    /\ tasks[last.id].user_id # last.user
    /\ GetCached(cache, last.id) = Snapshot(tasks[last.id])

\* The row satisfies the field constraints of a task.
ValidRow(doc) ==
    /\ doc.title # None /\ Len(Strip(doc.title)) >= 3
    /\ doc.status \in {"pending", "in-progress", "completed"}

\* C4: cache consistency within one session.  Right after a successful
\* UpdateTask, a GetTask by the owner returns the post-update title,
\* description and status; right after a successful DeleteTask, a GetTask
\* returns NotFound.  (Stated for updates that leave a valid row, so that a
\* violation does not rest on an update C8 forbids.)
C4_ReadAfterWrite ==
    /\ (last.op = "update" /\ last.kind = "ok" /\ ValidRow(tasks[last.id])) =>
          LET g == get_task_by_id(tasks, cache, last.user, last.id, "none")
          IN  /\ g.kind = "ok"
              /\ \A k \in TaskFields : g.value[k] = tasks[last.id][k]
    /\ (last.op = "delete" /\ last.kind = "ok" /\ last.value = TRUE) =>
          get_task_by_id(tasks, cache, last.user, last.id, "none").kind
              = "NotFound"

\* C5: write-through on update.  When UpdateTask succeeds, the task it
\* returns carries the committed row's title, description and status, and
\* the cache entry of the task equals the committed row.  (Stated for
\* updates that leave a valid row, as C4.)
C5_WriteThrough ==
    (last.op = "update" /\ last.kind = "ok" /\ ValidRow(tasks[last.id])) =>
        /\ \A k \in TaskFields : last.value[k] = tasks[last.id][k]
        /\ GetCached(cache, last.id) = Snapshot(tasks[last.id])

\* C6: create/get round trip.  In every reachable state, CreateTask with a
\* title of trimmed length >= 3, any description and one of the three
\* statuses succeeds, returns a new identifier, inserts exactly one row with
\* the data given, caches the same data, and a GetTask by the same owner
\* with that identifier returns the title, description and status given.
C6_CreateGetRoundTrip ==
    /\ \A u \in Users, t \in Titles \cup {" abc ", "Write report"},
          d \in Descriptions, s \in {"pending", "in-progress", "completed"} :
          (t # None /\ Len(Strip(t)) >= 3) =>
             LET r == create_task(tasks, cache, nextId, u, t, d, s, "none")
                 g == get_task_by_id(r.tasks, r.cache, u, nextId, "none")
             IN  /\ r.kind = "ok" /\ r.value = nextId
                 /\ nextId \notin DOMAIN tasks
                 /\ DOMAIN r.tasks = DOMAIN tasks \cup {nextId}
                 /\ \A i \in DOMAIN tasks : r.tasks[i] = tasks[i]
                 /\ r.tasks[nextId] = [title |-> t, description |-> d,
                                       status |-> s, user_id |-> u]
                 /\ GetCached(r.cache, nextId) = r.tasks[nextId]
                 /\ g.kind = "ok"
                 /\ g.value.title = t /\ g.value.description = d
                 /\ g.value.status = s
    /\ (last.op = "create" /\ last.kind = "ok") =>
          /\ last.value \in DOMAIN tasks
          /\ tasks[last.value].user_id = last.user
          /\ last.value = nextId - 1

\* One task was created, and its owner has then read it back.
C6_Witness ==
    /\ calls = 2 /\ nextId = 2
    /\ last.op = "get" /\ last.kind = "ok"
    /\ last.value.title = "abc" /\ last.value.description = None
    /\ last.value.status = "in-progress"

\* C7: CreateTask with a title that is absent, empty or of trimmed length
\* below 3, or with a status outside the three values, returns InvalidInput
\* and changes neither the store nor the cache; so for title "ab" with
\* status pending and for title "Write report" with status "archived".
C7_CreateRejectsInvalid ==
    /\ \A u \in Users, t \in Titles \cup {"ab", "Write report"},
          d \in Descriptions, s \in Statuses :
          (t = None \/ Len(Strip(t)) < 3
              \/ s \notin {"pending", "in-progress", "completed"}) =>
             LET r == create_task(tasks, cache, nextId, u, t, d, s, "none")
             IN  r.kind = "InvalidInput" /\ r.tasks = tasks /\ r.cache = cache
    /\ create_task(tasks, cache, nextId, "alice", "ab", None, "pending",
                   "none").kind = "InvalidInput"
    /\ create_task(tasks, cache, nextId, "alice", "Write report", None,
                   "archived", "none").kind = "InvalidInput"
    /\ (last.op = "create" /\ last.kind = "InvalidInput") => last.value = None

\* A create was rejected while the store and the cache held a task.
C7_Witness ==
    /\ last.op = "create" /\ last.kind = "InvalidInput"
    /\ DOMAIN tasks # {} /\ DOMAIN cache # {}

\* C8: task field invariant.  In every reachable state every row of the
\* store has a title of trimmed length >= 3 and one of the three statuses.
C8_FieldInvariant == \A i \in DOMAIN tasks : ValidRow(tasks[i])

\* C9: partial update frame.  In every reachable state, an UpdateTask that
\* succeeds sets exactly the fields it carries to the values supplied; the
\* other fields of the row, its identifier and its owner keep their values,
\* and no other row changes.
C9_PartialUpdateFrame ==
    \A b \in Users : \A i \in DOMAIN tasks : \A u \in Updates :
        LET r == UpdateOutcome(b, i, u)
        IN  r.kind = "ok" =>
               /\ DOMAIN r.tasks = DOMAIN tasks
               /\ DOMAIN r.tasks[i] = DOMAIN tasks[i]
               /\ \A k \in DOMAIN u : r.tasks[i][k] = u[k]
               /\ \A k \in DOMAIN tasks[i] \ DOMAIN u :
                     r.tasks[i][k] = tasks[i][k]
               /\ \A j \in DOMAIN tasks \ {i} : r.tasks[j] = tasks[j]

\* Of two tasks, one was just updated in its status alone: the snapshot
\* cached when it was created differs from the row in nothing else.
C9_Witness ==
    /\ last.op = "update" /\ last.kind = "ok"
    /\ Cardinality(DOMAIN tasks) = 2
    /\ GetCached(cache, last.id) # NoDoc
    /\ GetCached(cache, last.id).status # tasks[last.id].status
    /\ GetCached(cache, last.id).title = tasks[last.id].title
    /\ GetCached(cache, last.id).description = tasks[last.id].description
    /\ tasks[last.id].description = "d"

\* C10: owner immutability.  No step changes the owner of a row that exists
\* before and after it, and a row that appears gets an identifier no row had
\* before.
C10_OwnerImmutable ==
    [][/\ \A i \in DOMAIN tasks \cap DOMAIN tasks' :
             tasks'[i].user_id = tasks[i].user_id
       /\ \A i \in DOMAIN tasks' \ DOMAIN tasks : i = nextId /\ nextId' > i
       /\ \A i \in DOMAIN tasks : i < nextId]_vars

\* bob has just updated a task of his, and it is still his.
C10_Witness ==
    /\ last.op = "update" /\ last.kind = "ok" /\ last.user = "bob"
    /\ tasks[last.id].user_id = "bob"
    /\ tasks[last.id].status = "completed"
    /\ GetCached(cache, last.id) # NoDoc
    /\ GetCached(cache, last.id).status = "pending"

\* C11: delete idempotence.  In every reachable state, DeleteTask on a
\* well-formed id of which the caller owns no row returns false, not an
\* error, and changes neither the store nor the cache; and a DeleteTask that
\* returns true is followed by a DeleteTask of the same caller and id that
\* returns false and changes nothing.
C11_DeleteIdempotent ==
    /\ \A u \in Users : \A i \in DOMAIN tasks \cup AbsentIds :
          LET r == delete_task(tasks, cache, u, i, "none")
          IN  /\ FindOwned(tasks, i, u) = NoDoc =>
                    /\ r.kind = "ok" /\ r.value = FALSE
                    /\ r.tasks = tasks /\ r.cache = cache
              /\ (r.kind = "ok" /\ r.value = TRUE) =>
                    LET again == delete_task(r.tasks, r.cache, u, i, "none")
                    IN  /\ again.kind = "ok" /\ again.value = FALSE
                        /\ again.tasks = r.tasks /\ again.cache = r.cache
    /\ (last.op = "delete" /\ ObjectIdValid(last.id)) =>
          /\ last.kind = "ok"
          /\ last.value = TRUE => last.id \notin DOMAIN tasks

\* A task was created and deleted, and the delete was then repeated.
C11_Witness ==
    /\ calls = 3 /\ nextId = 2 /\ DOMAIN tasks = {}
    /\ last.op = "delete" /\ last.id = 1
    /\ last.kind = "ok" /\ last.value = FALSE
    /\ CacheKey(1) \notin DOMAIN cache
\* The parameters of a ListTasks call.
ListParams ==
    [page : 1 .. MaxPage, limit : 1 .. MaxLimit, sort_by : SortFields,
     sort_order : {"asc", "desc"}, status_filter : StatusFilters,
     title_filter : TitleFilters]

\* The calls that filter nothing: what they list, page by page, includes
\* what any filtered call lists.
UnfilteredParams ==
    {q \in ListParams : q.status_filter = None /\ q.title_filter = None}

\* What ListTasks with these parameters can answer in the store t, cache c.
ListOutcomes(t, c, user_id, q) ==
    get_user_tasks(t, c, user_id, q.page, q.limit, q.sort_by, q.sort_order,
                   q.status_filter, q.title_filter)

\* The ids of the tasks an answer of ListTasks lists.
ListedIds(r) == {r.value[1][k].id : k \in DOMAIN r.value[1]}

\* C12: delete effects.  In every reachable state, DeleteTask by the owner
\* of a task returns true, removes exactly that row from the store and
\* exactly that task's entry from the cache, and leaves every other row and
\* entry as it was; afterwards GetTask by the former owner returns NotFound
\* and no ListTasks of the former owner lists the task.
C12_DeleteEffects ==
    /\ \A i \in DOMAIN tasks :
          LET u == tasks[i].user_id
              r == delete_task(tasks, cache, u, i, "none")
          IN  /\ r.kind = "ok" /\ r.value = TRUE
              /\ DOMAIN r.tasks = DOMAIN tasks \ {i}
              /\ \A j \in DOMAIN r.tasks : r.tasks[j] = tasks[j]
              /\ DOMAIN r.cache = DOMAIN cache \ {CacheKey(i)}
              /\ \A k \in DOMAIN r.cache : r.cache[k] = cache[k]
              /\ get_task_by_id(r.tasks, r.cache, u, i, "none").kind
                    = "NotFound"
              /\ \A q \in UnfilteredParams :
                    \A l \in ListOutcomes(r.tasks, r.cache, u, q) :
                       i \notin ListedIds(l)
    /\ (last.op = "delete" /\ last.kind = "ok" /\ last.value = TRUE) =>
          /\ last.id \notin DOMAIN tasks
          /\ CacheKey(last.id) \notin DOMAIN cache

\* Of two cached tasks, the owner has just deleted one.
C12_Witness ==
    /\ last.op = "delete" /\ last.kind = "ok" /\ last.value = TRUE
    /\ calls = 3 /\ nextId = 3
    /\ \E j \in DOMAIN tasks :
          /\ j # last.id
          /\ GetCached(cache, j) = Snapshot(tasks[j])
C14_UsernameUnique ==
    /\ \A i, j \in DOMAIN users :
          users[i].username = users[j].username => i = j
    /\ \A w \in Workers :
          (reqs[w].at = "done" /\ reqs[w].kind = "ok") =>
              \A i \in DOMAIN users :
                  users[i].username = reqs[w].username => i = reqs[w].value
C16_ReadPath ==
    \A u \in Users : \A i \in DOMAIN tasks \cup AbsentIds :
        LET cached == GetCached(cache, i)
            r == get_task_by_id(tasks, cache, u, i, "none")
        IN  (cached = NoDoc \/ cached.user_id # u) =>
               IF i \in DOMAIN tasks /\ tasks[i].user_id = u
               THEN /\ r.kind = "ok"
                    /\ r.value = [id |-> i, title |-> tasks[i].title,
                                  description |-> tasks[i].description,
                                  status |-> tasks[i].status]
                    /\ DOMAIN r.cache = DOMAIN cache \cup {CacheKey(i)}
                    /\ GetCached(r.cache, i) = tasks[i]
                    /\ \A k \in DOMAIN cache \ {CacheKey(i)} :
                          r.cache[k] = cache[k]
               ELSE /\ r.kind = "NotFound" /\ r.value = None
                    /\ r.cache = cache
                    /\ get_task_by_id(tasks, r.cache, u, i, "none") = r

\* The entry of an updated task had expired: GetTask by the owner has read
\* the row from the store and cached it again.
C16_Witness ==
    /\ last.op = "get" /\ last.kind = "ok"
    /\ "id" \in DOMAIN last.value
    /\ last.value.status = "completed"
    /\ GetCached(cache, last.id) = Snapshot(tasks[last.id])
\* C17: the GetTask result is independent of the cache.  In every reachable
\* state GetTask answers a caller and id as it would with the task's cache
\* entry gone, and a task it returns consists of exactly id, title,
\* description and status.
C17_ResultIndependentOfCache ==
    /\ \A u \in Users : \A i \in DOMAIN tasks \cup AbsentIds :
          LET r == get_task_by_id(tasks, cache, u, i, "none")
              s == get_task_by_id(tasks, RemoveCached(cache, i), u, i, "none")
          IN  /\ r.kind = s.kind /\ r.value = s.value
              /\ r.kind = "ok" =>
                    DOMAIN r.value = {"id", "title", "description", "status"}
    /\ (last.op = "get" /\ last.kind = "ok") =>
          DOMAIN last.value = {"id", "title", "description", "status"}

\* The pattern is a prefix of the text, letter case ignored.
RECURSIVE PrefixIgnoreCase(_, _)
PrefixIgnoreCase(pattern, text) ==
    IF pattern = "" THEN TRUE
    ELSE IF text = "" THEN FALSE
    ELSE /\ Lower(Head(pattern)) = Lower(Head(text))
         /\ PrefixIgnoreCase(Tail(pattern), Tail(text))

\* The text contains the pattern, letter case ignored.
RECURSIVE ContainsIgnoreCase(_, _)
ContainsIgnoreCase(pattern, text) ==
    /\ text # None
    /\ \/ PrefixIgnoreCase(pattern, text)
       \/ text # "" /\ ContainsIgnoreCase(pattern, Tail(text))

\* C18: ListTasks is owner-scoped and filtered.  In every reachable state
\* every task a ListTasks call returns is owned by the caller, has the
\* status of the status filter when one is given, and has a title that
\* contains the title filter, letter case ignored, when one is given; a
\* pending task of the caller is on the first page of the caller's list
\* filtered by status pending when the page is large enough, and in no list
\* of another user.
C18_ListScoped ==
    \A u \in Users : \A q \in ListParams :
        \A r \in ListOutcomes(tasks, cache, u, q) :
            /\ \A i \in ListedIds(r) :
                  /\ i \in DOMAIN tasks /\ tasks[i].user_id = u
                  /\ q.status_filter \notin {None, ""} =>
                        tasks[i].status = q.status_filter
                  /\ q.title_filter \notin {None, ""} =>
                        ContainsIgnoreCase(q.title_filter, tasks[i].title)
            /\ \A i \in DOMAIN tasks :
                  /\ tasks[i].user_id # u => i \notin ListedIds(r)
                  /\ (tasks[i].user_id = u /\ tasks[i].status = "pending"
                         /\ q.status_filter = "pending"
                         /\ q.title_filter = None
                         /\ q.page = 1 /\ q.limit = MaxTasks) =>
                        i \in ListedIds(r)

\* The calls that filter by status at most: every page, limit, sort field
\* and sort order there is.
PagingParams == {q \in ListParams : q.title_filter = None}

\* C19: pagination.  In every reachable state, for page >= 1 and limit > 0,
\* every answer of ListTasks holds the tasks at the positions
\* (page-1)*limit + 1 .. (page-1)*limit + limit, as far as they exist, of
\* the caller's matching tasks in an order sorted as requested, and its
\* total is the number of the caller's matching tasks, whatever the page.
C19_Pagination ==
    \A u \in Users : \A q \in PagingParams :
        LET ids == {i \in DOMAIN tasks :
                      /\ tasks[i].user_id = u
                      /\ q.status_filter # None =>
                            tasks[i].status = q.status_filter}
            lo == (q.page - 1) * q.limit + 1
            hi == (q.page - 1) * q.limit + q.limit
        IN  \A r \in ListOutcomes(tasks, cache, u, q) :
               /\ r.kind = "ok"
               /\ r.value[2] = Cardinality(ids)
               /\ Len(r.value[1]) = Cardinality({p \in lo .. hi : p <= Cardinality(ids)})
               /\ Len(r.value[1]) <= q.limit
               /\ \E s \in SortedOrders(tasks, ids, q.sort_by, q.sort_order) :
                     \A k \in DOMAIN r.value[1] :
                         r.value[1][k].id = s[lo + k - 1]

\* Of two matching tasks ListTasks has returned one: a page of limit 1.
C19_Witness ==
    /\ last.op = "list" /\ last.kind = "ok"
    /\ last.value[2] = 2
    /\ Len(last.value[1]) = 1
    /\ last.value[1][1].id \in DOMAIN tasks

\* C20: ListTasks is authoritative and refreshes the cache.  In every
\* reachable state every task an answer of ListTasks holds carries the
\* values of its store row, whatever the cache holds; the cache entry of
\* every returned task then equals the row, owner included; the entries of
\* the other tasks and the store are as they were.
C20_ListRefreshesCache ==
    \A u \in Users : \A q \in PagingParams :
        \A r \in ListOutcomes(tasks, cache, u, q) :
            /\ \A k \in DOMAIN r.value[1] :
                  LET i == r.value[1][k].id
                  IN  /\ i \in DOMAIN tasks
                      /\ r.value[1][k] =
                            [id |-> i, title |-> tasks[i].title,
                             description |-> tasks[i].description,
                             status |-> tasks[i].status]
                      /\ GetCached(r.cache, i) = tasks[i]
            /\ DOMAIN r.cache =
                  DOMAIN cache \cup {CacheKey(i) : i \in ListedIds(r)}
            /\ \A key \in DOMAIN cache :
                  key \notin {CacheKey(i) : i \in ListedIds(r)} =>
                      r.cache[key] = cache[key]
            /\ r.tasks = tasks

\* ListTasks has returned a completed task, a moment ago cached as pending
\* or not at all, and the cache holds its row.
C20_Witness ==
    /\ last.op = "list" /\ last.kind = "ok"
    /\ calls = 3 /\ nextId = 2
    /\ Len(last.value[1]) = 1
    /\ last.value[1][1].status = "completed"
    /\ GetCached(cache, 1) = Snapshot(tasks[1])

\* C28: identifiers that match no row are handled uniformly.  In every
\* reachable state, for a task id that is no well-formed ObjectId, GetTask
\* and UpdateTask answer NotFound and DeleteTask answers false, as they do
\* for a well-formed id that has no row, and none of them changes the store
\* or the cache.
C28_MalformedIdUniform ==
    \A u \in Users :
        LET g == get_task_by_id(tasks, cache, u, MalformedId, "none")
            d == delete_task(tasks, cache, u, MalformedId, "none")
        IN  /\ g.kind = "NotFound" /\ g.cache = cache
            /\ d.kind = "ok" /\ d.value = FALSE
            /\ d.tasks = tasks /\ d.cache = cache
            /\ \A i \in AbsentIds :
                  /\ get_task_by_id(tasks, cache, u, i, "none").kind = g.kind
                  /\ delete_task(tasks, cache, u, i, "none").kind = d.kind
            /\ \A upd \in Updates :
                  ("status" \in DOMAIN upd => upd.status \in allowed_statuses) =>
                      LET r == update_task(tasks, cache, u, MalformedId, upd,
                                           "none")
                      IN  /\ r.kind = "NotFound"
                          /\ r.tasks = tasks /\ r.cache = cache

\* C30: cache owner invariant.  Every cache entry is keyed by an identifier
\* the store has assigned to a committed task and embeds the owner of that
\* task's row, which is the owner the task was created with (the caller of
\* the CreateTask that inserted the row; C10: no step changes it); and every
\* step that writes a cache entry writes the owner of the row, so never the
\* caller's identity for a task of someone else.
C30_CacheOwner ==
    [][/\ \A k \in DOMAIN cache' :
             \E i \in 1 .. (nextId' - 1) :
                 /\ k = CacheKey(i)
                 /\ i \in DOMAIN tasks' =>
                       GetCached(cache', i).user_id = tasks'[i].user_id
                 /\ (k \notin DOMAIN cache \/ cache'[k] # cache[k]) =>
                       /\ i \in DOMAIN tasks'
                       /\ GetCached(cache', i).user_id = tasks'[i].user_id
                       /\ last'.user = tasks'[i].user_id
       /\ \A i \in DOMAIN tasks' \ DOMAIN tasks :
             /\ last'.op = "create" /\ tasks'[i].user_id = last'.user
             /\ GetCached(cache', i).user_id = last'.user]_vars

\* bob has read his task from the store, its entry having expired, and the
\* entry written embeds bob; alice's task is cached as alice's.
C30_Witness ==
    /\ last.op = "get" /\ last.kind = "ok" /\ last.user = "bob"
    /\ "id" \in DOMAIN last.value
    /\ tasks[last.id].user_id = "bob"
    /\ GetCached(cache, last.id).user_id = "bob"
    /\ \E j \in DOMAIN tasks :
          tasks[j].user_id = "alice" /\ GetCached(cache, j) # NoDoc

\* C26: no resurrection of deleted tasks in the cache.  Whenever every
\* request being served has completed and one of them is a DeleteTask that
\* returned true, the cache holds no entry for the task deleted, and a
\* GetTask by its former owner answers NotFound.
C26_NoResurrection ==
    (\A w \in Workers : reqs[w].at \in {"idle", "done"}) =>
        \A w \in Workers :
            (reqs[w].at = "done" /\ reqs[w].op = "delete"
                /\ reqs[w].kind = "ok" /\ reqs[w].value = TRUE) =>
                /\ GetCached(cache, reqs[w].id) = NoDoc
                /\ get_task_by_id(tasks, cache, reqs[w].user, reqs[w].id,
                                  "none").kind = "NotFound"

\* Both workers have served an UpdateTask of alice on her task 1.
TwoUpdatesDone(rs) ==
    \A w \in Workers :
        /\ rs[w].at = "done" /\ rs[w].op = "update"
        /\ rs[w].user = "alice" /\ rs[w].id = 1

\* C27 as stated: of two concurrent UpdateTask calls of the owner on one
\* task both succeed, and the final row carries the values each supplied.
C27_AsClaimed ==
    TwoUpdatesDone(reqs) =>
        \A w \in Workers :
            /\ reqs[w].kind = "ok"
            /\ \A k \in DOMAIN reqs[w].updates :
                  tasks[1][k] = reqs[w].updates[k]

\* C27: no lost update.  The commit of an UpdateTask sets the fields the
\* update carries and leaves every other field of the row as the commit
\* finds it; an UpdateTask that ends in StorageFailure changes nothing; and
\* when two UpdateTask calls of the owner on one task have been served
\* concurrently, each has succeeded or ended in StorageFailure, at least one
\* has succeeded, and the row carries the values of every one that has
\* succeeded and its former values in the fields none of those set.
C27_NoLostUpdate ==
    [][/\ \A w \in Workers :
             (reqs[w].at = "commit" /\ reqs'[w].at # "commit"
                 /\ reqs[w].op = "update") =>
                 LET i == reqs[w].id
                 IN  /\ i \in DOMAIN tasks /\ i \in DOMAIN tasks'
                     /\ \A k \in DOMAIN tasks[i] :
                           tasks'[i][k] = IF k \in DOMAIN reqs[w].updates
                                          THEN reqs[w].updates[k]
                                          ELSE tasks[i][k]
       /\ \A w \in Workers :
             (reqs[w].at # "done" /\ reqs'[w].at = "done"
                 /\ reqs'[w].kind = "StorageFailure") => tasks' = tasks
       /\ TwoUpdatesDone(reqs') =>
             LET ok == {w \in Workers : reqs'[w].kind = "ok"}
             IN  /\ ok # {}
                 /\ \A w \in Workers \ ok : reqs'[w].kind = "StorageFailure"
                 /\ \A w \in ok : \A k \in DOMAIN reqs'[w].updates :
                       tasks'[1][k] = reqs'[w].updates[k]
                 /\ \A k \in {"title", "description", "status"} :
                       (\A w \in ok : k \notin DOMAIN reqs'[w].updates) =>
                           tasks'[1][k] =
                               [title |-> "abc", description |-> None,
                                status |-> "pending"][k]]_vars

\* Two updates of alice's task have been served: the one of the status met
\* the other's write and ended in StorageFailure, the one of the title is in
\* the row.
C27_Witness ==
    /\ TwoUpdatesDone(reqs)
    /\ \E w \in Workers :
          /\ reqs[w].kind = "StorageFailure"
          /\ "status" \in DOMAIN reqs[w].updates
    /\ \E w \in Workers :
          /\ reqs[w].kind = "ok" /\ "title" \in DOMAIN reqs[w].updates
    /\ tasks[1].title = "xyz" /\ tasks[1].status = "pending"

\* C29: errors imply no store change.  Every call of CreateTask, UpdateTask
\* or DeleteTask that surfaces an error, whatever its cause, leaves the
\* store as it was before the call.
C29_ErrorsLeaveStore ==
    [][(/\ calls' = calls + 1
        /\ last'.op \in {"create", "update", "delete"}
        /\ last'.kind # "ok") => tasks' = tasks]_vars

\* C25: commit-or-abort on every exit path.  Whenever CreateTask,
\* UpdateTask or DeleteTask has returned or raised after starting a
\* transaction, the transaction is no longer active, it has been either
\* committed or aborted and not both, and the session has refused no
\* commit or abort (none was asked of a transaction already committed or
\* aborted).
C25_CommitOrAbort ==
    ("session" \in DOMAIN last /\ last.session.state # "NONE") =>
        /\ last.session.state \in {"COMMITTED", "ABORTED"}
        /\ last.session.committed # last.session.aborted
        /\ ~last.session.rejected

\* C21: bounded staleness by TTL.  Every cache entry has between 1 and 300
\* seconds left, so none is served more than 300 seconds after it was put;
\* a step that puts an entry (a create, a list refresh, a GetTask answered
\* from the store) leaves it 300 seconds; a GetTask answered from the cache
\* leaves every entry the seconds it had; and the passing of time takes
\* from every entry and gives to none.
C21_BoundedStaleness ==
    [][/\ DOMAIN ttl' = DOMAIN cache'
       /\ \A k \in DOMAIN ttl' : ttl'[k] \in 1 .. TTL
       /\ \A k \in DOMAIN cache' :
             (k \notin DOMAIN cache \/ cache'[k] # cache[k]) => ttl'[k] = TTL
       /\ (calls' = calls + 1 /\ last'.kind = "ok") =>
             /\ last'.op = "create" => ttl'[CacheKey(last'.value)] = TTL
             /\ last'.op = "list" =>
                   \A k \in DOMAIN last'.value[1] :
                       ttl'[CacheKey(last'.value[1][k].id)] = TTL
             /\ (last'.op = "get" /\ "id" \in DOMAIN last'.value) =>
                   ttl'[CacheKey(last'.id)] = TTL
             /\ (last'.op = "get" /\ "id" \notin DOMAIN last'.value) =>
                   /\ CacheKey(last'.id) \in DOMAIN cache
                   /\ last'.value = GetCached(cache, last'.id)
                   /\ ttl' = ttl
       /\ calls' = calls =>
             \A k \in DOMAIN ttl' : k \in DOMAIN ttl /\ ttl'[k] < ttl[k]]_vars

\* GetTask has answered from the cache a snapshot put 200 seconds before,
\* which the store row has left behind since; the entry has 100 seconds
\* left.
C21_Witness ==
    /\ last.op = "get" /\ last.kind = "ok"
    /\ "id" \notin DOMAIN last.value
    /\ last.id \in DOMAIN tasks
    /\ last.value.status # tasks[last.id].status
    /\ CacheKey(last.id) \in DOMAIN ttl
    /\ ttl[CacheKey(last.id)] = TTL - 2 * TickSeconds

\* C22: Authenticate.  In every reachable state, for every registered user,
\* login with the username and the password whose hash the store holds
\* returns a token whose subject is the string form of the user's
\* identifier; login with a username no user has, or with a password that
\* does not match, returns InvalidCredentials and no token.
C22_Authenticate ==
    \A u \in Usernames, p \in Passwords :
        LET r == login(users, u, p)
            known == {i \in DOMAIN users : users[i].username = u}
        IN  Len(Strip(u)) >= 3 =>
               IF \E i \in known :
                      users[i].password_hash = generate_password_hash(p)
               THEN /\ r.kind = "ok"
                    /\ \E i \in known : r.value = <<"jwt", <<"str", i>> >>
               ELSE r.kind = "InvalidCredentials" /\ r.value = None

\* C23: Password policy.  In every reachable state, Register with a free,
\* well-formed username, a password change by any user, and a reset with a
\* redeemable token each accept the password exactly when it has length >= 8
\* and an uppercase letter, a lowercase letter and a digit; a rejected
\* password yields InvalidInput, creates no user and changes no stored hash.
C23_PasswordPolicy ==
    \A p \in Passwords :
        LET meets == /\ Len(p) >= 8
                     /\ HasCharOf(UpperCase, p)
                     /\ HasCharOf(LowerCase, p)
                     /\ HasCharOf(Digits, p)
            settled(r) == IF meets THEN r.kind = "ok"
                          ELSE r.kind = "InvalidInput" /\ r.users = users
        IN  /\ \A u \in Usernames :
                  (Len(Strip(u)) >= 3 /\ FindUser(users, u) = NoDoc)
                      => settled(register(users, u, p))
            /\ \A i \in DOMAIN users :
                  settled(update_password(users, UserInstance(users, i), p))
            /\ \A k \in Tokens :
                  Redeemable(users, k, now) # {}
                      => settled(reset_password(users, k, p, now))

\* C24: Reset-token lifecycle.  In every reachable state: a token set by a
\* reset-request is redeemable at every time before its expiry and at none
\* from it on; redeeming a token that is unknown or expired returns false and
\* changes nothing; redeeming a redeemable token with a password that meets
\* the policy returns true, stores the new hash and removes the token and
\* its expiry, and redeeming the same token again returns false and changes
\* nothing.
C24_ResetTokenLifecycle ==
    /\ \A i \in DOMAIN users, k \in Tokens :
          LET us == generate_password_reset_token(users,
                        UserInstance(users, i), k, now)
          IN  /\ us[i].reset_token = k
              /\ \A t \in 0 .. MaxNow + ResetSeconds :
                    i \in Redeemable(us, k, t) <=> t < now + ResetSeconds
    /\ \A k \in Tokens, p \in Passwords :
          LET r == reset_password(users, k, p, now)
              live == Redeemable(users, k, now)
          IN  /\ live = {}
                    => r.kind = "ok" /\ r.value = FALSE /\ r.users = users
              /\ (live # {} /\ _validate_password(p))
                    => /\ r.kind = "ok"
                       /\ r.value = TRUE
                       /\ \E i \in live :
                             /\ r.users[i].password_hash =
                                    generate_password_hash(p)
                             /\ DOMAIN r.users[i] \cap
                                    {"reset_token", "reset_token_expiry"} = {}
                       /\ LET again == reset_password(r.users, k, p, now)
                          IN  /\ again.kind = "ok"
                              /\ again.value = FALSE
                              /\ again.users = r.users

====
